---- MODULE Spec2Model ----
(***************************************************************************)
(* A model of package trw (trw.go): Matchers (Lit, LitN, Patt, PattN, Re,  *)
(* ReN), Rewriters (Delete, Replace, Expand*, Seq) and Rewriter.Do.        *)
(*                                                                         *)
(* Go values are modelled as follows.                                      *)
(*   byte        a one-character string                                    *)
(*   string      a sequence of bytes                                       *)
(*   backing     heap[id], a sequence of bytes whose length is the         *)
(*   array       array's capacity; ids are positions in the heap           *)
(*   []byte      a slice header [arr, len, cap]; every slice of the        *)
(*               package starts at offset 0 of its array; nil is NilSlice  *)
(*   [][]int     a sequence of index tuples, 0-based like the Go code      *)
(*   panic       a value of kind "panic" (constructors) or ok = FALSE      *)
(*               (apply time)                                              *)
(***************************************************************************)
EXTENDS Integers, Sequences, FiniteSets, TLC

VARIABLES
    phase,      \* "config" | "config_error" | "built" | "running" | "done" | "panicked"
    cfg,        \* the constructor expression the caller wrote
    rw,         \* the Rewriter value the constructors returned
    input,      \* the caller's buffer as it was handed to Do: [bytes, nil]
    heap,       \* the backing arrays allocated so far
    dest,       \* Seq closure: local dest (the current buffer)
    src,        \* Seq closure: local src (the spare buffer)
    pc,         \* Seq closure: index of the next rewriter of the range loop
    allocs,     \* number of backing arrays allocated since Do was called
    slack,      \* what the runtime adds to a capacity it is free to round up
    given,      \* the last Rewriter call: its arguments [d, s] and the heap then
    other,      \* a second application of rw, set aside while this one runs
    again,      \* rw has been handed a second buffer
    scan        \* a literal Matcher closure running on input: its loop variables

vars ==
    <<phase, cfg, rw, input, heap, dest, src, pc, allocs, slack, given, other, again,
      scan>>

----------------------------------------------------------------------------
(* Bounds of the exploration. *)

\* longest generated input buffer
MaxLen == 4
\* largest capacity rounding slack of the runtime
MaxSlack == 1

----------------------------------------------------------------------------
(* Generic helpers. *)

Min(a, b) == IF a < b THEN a ELSE b

Max(a, b) == IF a > b THEN a ELSE b

\* s[lo:hi] of a Go string or byte sequence, 0-based, half-open
Sub(s, lo, hi) == SubSeq(s, lo + 1, hi)

\* all byte sequences over alphabet A of length at most n
RECURSIVE SeqsUpTo(_, _)
SeqsUpTo(A, n) ==
    IF n = 0 THEN {<<>>}
    ELSE LET shorter == SeqsUpTo(A, n - 1)
         IN  shorter \cup {Append(s, a) : s \in shorter, a \in A}

----------------------------------------------------------------------------
(* Slices and backing arrays. *)

\* the zero byte of freshly allocated memory
ZeroByte == "."

NilSlice == [arr |-> 0, len |-> 0, cap |-> 0]

\* the bytes s[0:len(s)] of slice s in heap h
Bytes(h, s) == IF s.arr = 0 THEN <<>> ELSE SubSeq(h[s.arr], 1, s.len)

\* s[:n]; legal in Go iff 0 <= n <= cap(s)
SliceTo(s, n) == [s EXCEPT !.len = n]

SliceToOk(s, n) == 0 <= n /\ n <= s.cap

\* a backing array of capacity c holding bytes b followed by zero bytes
ArrayOf(b, c) == [p \in 1..c |-> IF p <= Len(b) THEN b[p] ELSE ZeroByte]

----------------------------------------------------------------------------
(* bytes.Index and the literal matchers. *)

\* bytes.Index(s, sep): the 0-based index of the first occurrence of sep in
\* s, or -1
Occurrences(s, sep) ==
    {i \in 0..(Len(s) - Len(sep)) : Sub(s, i, i + Len(sep)) = sep}

FirstOf(hits) ==
    IF hits = {} THEN -1 ELSE CHOOSE i \in hits : \A k \in hits : i <= k

\* variant: the index of the last occurrence
LastIndex(s, sep) ==
    IF Occurrences(s, sep) = {} THEN -1
    ELSE CHOOSE i \in Occurrences(s, sep) : \A k \in Occurrences(s, sep) : k <= i

Index(s, sep) == FirstOf(Occurrences(s, sep))

\* the value a panicking constructor leaves the caller with
Panic(msg) == [kind |-> "panic", msg |-> msg]

IsPanic(v) == v.kind = "panic"

\* the nil Matcher (a nil func value)
NilMatcher == [kind |-> "nil"]

\* the for loop of the closure Lit returns; the loop variables are b, i, ms;
\* ok records that the slice expression s[b:] was in range
RECURSIVE LitLoop(_, _, _, _, _, _)
LitLoop(patt, s, b, i, ms, ok) ==
    IF ~ok \/ i < 0 THEN [ms |-> ms, ok |-> ok]
    ELSE IF b + i + Len(patt) > Len(s)
    THEN [ms |-> Append(ms, <<b + i, b + i + Len(patt)>>), ok |-> FALSE]
    ELSE LitLoop(patt, s, b + i + Len(patt),
                 Index(Sub(s, b + i + Len(patt), Len(s)), patt),
                 Append(ms, <<b + i, b + i + Len(patt)>>), ok)

\* variant: the loop stops after the first match
LitMatchFirstOnly(patt, s) ==
    IF Index(s, patt) < 0 THEN [ms |-> <<>>, ok |-> TRUE]
    ELSE [ms |-> <<<<Index(s, patt), Index(s, patt) + Len(patt)>>>>, ok |-> TRUE]

\* the closure Lit returns, applied to s
LitMatch(patt, s) == LitLoop(patt, s, 0, Index(s, patt), <<>>, TRUE)

\* the for loop of the closure LitN returns; the loop variables are n, b, ms
RECURSIVE LitNLoop(_, _, _, _, _)
RECURSIVE LitNStep(_, _, _, _, _, _)
LitNLoop(patt, s, n, b, ms) ==
    IF n <= 0 THEN [ms |-> ms, ok |-> TRUE]
    ELSE IF b > Len(s) THEN [ms |-> ms, ok |-> FALSE]
    ELSE LitNStep(patt, s, n, b, ms, Index(Sub(s, b, Len(s)), patt))

\* the body of LitN's loop once bytes.Index returned i
LitNStep(patt, s, n, b, ms, i) ==
    IF i >= 0
    THEN LitNLoop(patt, s, n - 1, b + i + Len(patt),
                  Append(ms, <<b + i, b + i + Len(patt)>>))
    ELSE [ms |-> ms, ok |-> TRUE]

\* variant: the loop runs "for n >= 0", one match too many
LitNMatchOneMore(patt, n, s) == LitNLoop(patt, s, n + 1, 0, <<>>)

\* the closure LitN returns, applied to s
LitNMatch(patt, n, s) == LitNLoop(patt, s, n, 0, <<>>)

\* variant: "for b := 0; n > 0; n--" counts the captured n down
LitNCapturedUsedUp(patt, n, s) == n - Len(LitNMatch(patt, n, s).ms)

\* the variable n the closure of LitN captured, after the closure ran on s:
\* "for n, b := n, 0" declares the loop's own n, the captured one is only read
LitNCaptured(patt, n, s) == n

\* Lit creates a Matcher for the given string literal
Lit(patt) ==
    IF Len(patt) = 0 THEN Panic("empty pattern in trw.Lit() function")
    ELSE [kind |-> "Lit", patt |-> patt]

\* variant: LitN without the check of the literal
LitNUnchecked(patt, n) ==
    IF n < 0 THEN Lit(patt) ELSE [kind |-> "LitN", patt |-> patt, n |-> n]

\* LitN creates a Matcher for the literal that matches up to n times
LitN(patt, n) ==
    IF n < 0 THEN Lit(patt)
    ELSE IF Len(patt) = 0 THEN Panic("empty pattern in trw.LitN() function")
    ELSE [kind |-> "LitN", patt |-> patt, n |-> n]

----------------------------------------------------------------------------
(* The regexp collaborator (package regexp of the Go library), for the     *)
(* patterns the model compiles.  A compiled pattern has the shape          *)
(*     open ( cls{min,max} ) close                                         *)
(* a literal prefix, a greedy repetition of a byte class, a literal        *)
(* suffix; the repetition is capture group 1 when group is TRUE; max = -1  *)
(* is "no upper limit".  Matching is leftmost, greedy, on bytes.           *)

\* the bytes the model's buffers, literals and classes are made of
AllBytes ==
    {"a", "b", " ", "*", "_", "S", "o", "m", "e", "x", "p", "l", "t",
     "<", ">", "/", "i", "$", "{", "}", "1", "0", "Z", "."}

\* a nil *regexp.Regexp
NilRe == [kind |-> "nil"]

Compiled(open, cls, min, max, close, group) ==
    [kind |-> "re", open |-> open, cls |-> cls, min |-> min, max |-> max,
     close |-> close, group |-> group, optional |-> FALSE]

\* a pattern "open(c)?close": the group takes part in a match only when it
\* matched a byte
CompiledOptional(open, cls, close) ==
    [kind |-> "re", open |-> open, cls |-> cls, min |-> 0, max |-> 1,
     close |-> close, group |-> TRUE, optional |-> TRUE]

\* regexp.MustCompile, on the patterns used by the model's configurations
MustCompile(patt) ==
    CASE patt = "a+" -> Compiled(<<>>, {"a"}, 1, -1, <<>>, FALSE)
      [] patt = "a*" -> Compiled(<<>>, {"a"}, 0, -1, <<>>, FALSE)
      [] patt = "b+" -> Compiled(<<>>, {"b"}, 1, -1, <<>>, FALSE)
      [] patt = "(a)" -> Compiled(<<>>, {"a"}, 1, 1, <<>>, TRUE)
      [] patt = "b(a*)" -> Compiled(<<"b">>, {"a"}, 0, -1, <<>>, TRUE)
      [] patt = "b(a)?" -> CompiledOptional(<<"b">>, {"a"}, <<>>)
      [] patt = "[[:space:]]+" -> Compiled(<<>>, {" "}, 1, -1, <<>>, FALSE)
      [] patt = "_([^_]+)_" ->
            Compiled(<<"_">>, AllBytes \ {"_"}, 1, -1, <<"_">>, TRUE)
      [] patt = "\\*([^\\*]+)\\*" ->
            Compiled(<<"*">>, AllBytes \ {"*"}, 1, -1, <<"*">>, TRUE)
      [] patt = "" -> Compiled(<<>>, {}, 0, 0, <<>>, FALSE)
      [] OTHER -> Panic("regexp: Compile: error parsing regexp")

\* the repetition counts k with which re matches s starting exactly at p
MatchCounts(re, s, p) ==
    {k \in 0..Len(s) :
        /\ k >= re.min
        /\ re.max >= 0 => k <= re.max
        /\ p + Len(re.open) + k + Len(re.close) <= Len(s)
        /\ Sub(s, p, p + Len(re.open)) = re.open
        /\ \A q \in (p + Len(re.open) + 1)..(p + Len(re.open) + k) : s[q] \in re.cls
        /\ Sub(s, p + Len(re.open) + k, p + Len(re.open) + k + Len(re.close)) = re.close}

\* the greedy match of re in s starting exactly at p, as submatch indices
\* <<b, e>> or <<b, e, b1, e1>>; defined when MatchCounts is not empty
SetMax(K) == CHOOSE m \in K : \A o \in K : o <= m

SetMin(K) == CHOOSE m \in K : \A o \in K : m <= o

SpansOf(re, p, k) ==
    IF re.optional /\ k = 0
    THEN <<p, p + Len(re.open) + Len(re.close), -1, -1>>
    ELSE IF re.group
    THEN <<p, p + Len(re.open) + k + Len(re.close),
           p + Len(re.open), p + Len(re.open) + k>>
    ELSE <<p, p + Len(re.open) + k + Len(re.close)>>

MatchAt(re, s, p) == SpansOf(re, p, SetMax(MatchCounts(re, s, p)))

\* the positions at or after pos where re matches
MatchStarts(re, s, pos) == {p \in pos..Len(s) : MatchCounts(re, s, p) # {}}

LeftmostOf(re, s, starts) ==
    IF starts = {} THEN <<>> ELSE MatchAt(re, s, SetMin(starts))

\* Regexp.doExecute: the leftmost match at or after pos, or <<>>
DoExecute(re, s, pos) == LeftmostOf(re, s, MatchStarts(re, s, pos))

\* Regexp.allMatches: the loop variables are pos, i, prevMatchEnd; an empty
\* match next to the previous match is skipped, and the scan then moves on
\* by one byte
RECURSIVE AllMatches(_, _, _, _, _, _, _)
RECURSIVE AllMatchesStep(_, _, _, _, _, _, _, _)
AllMatches(re, s, n, pos, i, prevMatchEnd, out) ==
    IF ~(i < n /\ pos <= Len(s)) THEN out
    ELSE AllMatchesStep(re, s, n, pos, i, prevMatchEnd, out, DoExecute(re, s, pos))

\* the body of the loop of allMatches once doExecute returned matches
AllMatchesStep(re, s, n, pos, i, prevMatchEnd, out, matches) ==
    IF Len(matches) = 0 THEN out
    ELSE IF matches[2] # pos
    THEN AllMatches(re, s, n, matches[2], i + 1, matches[2], Append(out, matches))
    ELSE IF matches[1] = prevMatchEnd
    THEN AllMatches(re, s, n, IF pos < Len(s) THEN pos + 1 ELSE Len(s) + 1,
                    i, matches[2], out)
    ELSE AllMatches(re, s, n, IF pos < Len(s) THEN pos + 1 ELSE Len(s) + 1,
                    i + 1, matches[2], Append(out, matches))

\* Regexp.FindAllSubmatchIndex(b, n)
FindAllSubmatchIndex(re, s, n) ==
    AllMatches(re, s, IF n < 0 THEN Len(s) + 1 ELSE n, 0, 0, -1, <<>>)

\* Regexp.FindAllIndex(b, n)
WholeSpans(all) == [k \in 1..Len(all) |-> <<all[k][1], all[k][2]>>]

FindAllIndex(re, s, n) == WholeSpans(FindAllSubmatchIndex(re, s, n))

----------------------------------------------------------------------------
(* The regexp matchers and the application of a Matcher. *)

\* ReN creates a matcher for the regexp object, matching up to n times
ReN(re, n) ==
    IF re = NilRe
    THEN Panic("nil regular expression object in trw.ReN() function")
    ELSE [kind |-> "ReN", re |-> re, n |-> n]

\* Re creates a matcher for the given regular expression object
Re(re) == ReN(re, -1)

\* PattN creates a Matcher for the pattern, matching up to n times
\* ReN(re, n) where re is what regexp.MustCompile returned or panicked with
ReNCompiled(re, n) == IF IsPanic(re) THEN re ELSE ReN(re, n)

PattN(patt, n) ==
    IF patt = "" THEN Panic("empty pattern in trw.PattN() function")
    ELSE ReNCompiled(MustCompile(patt), n)

\* Patt creates a Matcher for the given regular expression pattern
Patt(patt) == PattN(patt, -1)

\* match(src): the call of a Matcher value; calling the nil func panics
Match(match, s) ==
    CASE match.kind = "Lit" -> LitMatch(match.patt, s)
      [] match.kind = "LitN" -> LitNMatch(match.patt, match.n, s)
      [] match.kind = "ReN" ->
            [ms |-> FindAllIndex(match.re, s, match.n), ok |-> TRUE]
      [] OTHER -> [ms |-> <<>>, ok |-> FALSE]

----------------------------------------------------------------------------
(* Memory: copy, make and append on the heap.  A machine state M is        *)
(* [heap, allocs, ok]; ok = FALSE after a run-time panic.                  *)

\* the backing array of slice s (nil has none)
ArrayAt(h, s) == IF s.arr = 0 THEN <<>> ELSE h[s.arr]

\* copy(s[i:], s[j:k]) inside one backing array a of a slice of length len:
\* number of bytes copied
CopyCount(len, i, j, k) == Min(len - i, k - j)

\* copy(s[i:], s[j:k]): the array afterwards; copy has memmove semantics
CopyWithin(a, len, i, j, k) ==
    [p \in 1..Len(a) |->
        IF i < p /\ p <= i + CopyCount(len, i, j, k) THEN a[j + (p - i)] ELSE a[p]]

\* copy(s[i:], str) for a string str: the array afterwards
CopyString(a, len, i, str) ==
    [p \in 1..Len(a) |->
        IF i < p /\ p <= i + Min(len - i, Len(str)) THEN str[p - i] ELSE a[p]]

\* make([]byte, 0, c): a fresh zeroed array of capacity exactly c
Make(M, c) ==
    [M |-> [M EXCEPT !.heap = Append(M.heap, ArrayOf(<<>>, c)),
                     !.allocs = M.allocs + 1],
     s |-> [arr |-> Len(M.heap) + 1, len |-> 0, cap |-> c]]

\* capacity append gives a slice that has to grow from old to at least
\* needed: the runtime doubles small slices and may round the size up
GrowCap(old, needed) ==
    (IF needed > 2 * old THEN needed ELSE 2 * old) + slack

\* append(d, bs...): in place when the capacity suffices, otherwise into a
\* newly allocated array
AppendInPlace(M, d, bs) ==
    [M |-> IF Len(bs) = 0 THEN M
           ELSE [M EXCEPT !.heap[d.arr] =
                    [p \in 1..d.cap |->
                        IF d.len < p /\ p <= d.len + Len(bs) THEN bs[p - d.len]
                        ELSE M.heap[d.arr][p]]],
     s |-> [d EXCEPT !.len = d.len + Len(bs)]]

AppendGrown(M, d, bs, c) ==
    [M |-> [M EXCEPT !.heap = Append(M.heap, ArrayOf(Bytes(M.heap, d) \o bs, c)),
                     !.allocs = M.allocs + 1],
     s |-> [arr |-> Len(M.heap) + 1, len |-> d.len + Len(bs), cap |-> c]]

AppendBytes(M, d, bs) ==
    IF d.len + Len(bs) <= d.cap THEN AppendInPlace(M, d, bs)
    ELSE AppendGrown(M, d, bs, GrowCap(d.cap, d.len + Len(bs)))

\* what a Rewriter closure returns: (result, spare) and the machine state
Ret(M, result, spare) ==
    [res |-> result, spare |-> spare, heap |-> M.heap, allocs |-> M.allocs,
     ok |-> M.ok]

\* a run-time panic inside a Rewriter closure
Crash(M, cur, spare) ==
    [res |-> cur, spare |-> spare, heap |-> M.heap, allocs |-> M.allocs,
     ok |-> FALSE]

\* "return append(...), src" given what append returned
RetAppended(a, spare) == Ret(a.M, a.s, spare)

\* the state [M, d, i] of a copy loop that starts at "i := 0" with the
\* destination mk = [M, s] that make (or the spare) provided
LoopStart(mk) == [M |-> mk.M, d |-> mk.s, i |-> 0]

\* the loop state after "dest = append(dest, bs...)"
AppendedTo(st, a) == [st EXCEPT !.M = a.M, !.d = a.s]

Appended(st, bs) == AppendedTo(st, AppendBytes(st.M, st.d, bs))

\* "j = m[1]" resp. "i = m[1]"
SetJ(st, j) == [st EXCEPT !.j = j]

\* variant: "i = m[1] + 1"
SetIPastEnd(st, i) == [st EXCEPT !.i = i + 1]

SetI(st, i) == [st EXCEPT !.i = i]

----------------------------------------------------------------------------
(* Delete. *)

\* one "i += copy(src[i:], src[j:k])" of the in-place loops; st is the loop
\* state [a, i, j, ok] with a the contents of src's backing array
CopyStep(st, len, cap, j, k) ==
    IF ~st.ok THEN st
    ELSE IF ~(0 <= st.i /\ st.i <= len /\ 0 <= j /\ j <= k /\ k <= cap)
    THEN [st EXCEPT !.ok = FALSE]
    ELSE [st EXCEPT !.a = CopyWithin(st.a, len, st.i, j, k),
                    !.i = st.i + CopyCount(len, st.i, j, k)]

\* variant: the substitution is not copied
SubstStepSkipped(st, len, subst) == st

\* one "i += copy(src[i:], subst)" of Replace's in-place loop
SubstStep(st, len, subst) ==
    IF ~st.ok THEN st
    ELSE IF ~(0 <= st.i /\ st.i <= len) THEN [st EXCEPT !.ok = FALSE]
    ELSE [st EXCEPT !.a = CopyString(st.a, len, st.i, subst),
                    !.i = st.i + Min(len - st.i, Len(subst))]

\* "for _, m := range ms[1:]" of Delete, from the k-th match on
RECURSIVE DeleteLoop(_, _, _, _, _)
DeleteLoop(st, ms, k, len, cap) ==
    IF k > Len(ms) \/ ~st.ok THEN st
    ELSE DeleteLoop([CopyStep(st, len, cap, st.j, ms[k][1]) EXCEPT !.j = ms[k][2]],
                    ms, k + 1, len, cap)

\* variant: the tail after the last match is not copied
TailStepSkipped(st, len, cap) == st

\* the tail copy "if j < len(src) { i += copy(src[i:], src[j:]) }"
TailStep(st, len, cap) ==
    IF st.ok /\ st.j < len THEN CopyStep(st, len, cap, st.j, len) ELSE st

\* "return src[:i], spare" after an in-place loop that left st
InPlaceReturn(M, st, s, spare) ==
    IF ~st.ok \/ ~SliceToOk(s, st.i) THEN Crash(M, s, spare)
    ELSE Ret(IF s.arr = 0 THEN M ELSE [M EXCEPT !.heap[s.arr] = st.a],
             SliceTo(s, st.i), spare)

\* variant: "i, j := ms[0][1], ms[0][0]"
FirstMatchSwapped(M, s, ms) ==
    [a |-> ArrayAt(M.heap, s), i |-> ms[1][2], j |-> ms[1][1], ok |-> TRUE]

\* the closure Delete returns: func(unused, src []byte) ([]byte, []byte)
\* "i, j := ms[0][0], ms[0][1]"
FirstMatch(M, s, ms) ==
    [a |-> ArrayAt(M.heap, s), i |-> ms[1][1], j |-> ms[1][2], ok |-> TRUE]

\* the state [a, i, j, ok] of Delete's loop once the first k matches of ms
\* are consumed: where its next copy step, or the tail copy, begins
DeleteStateAfter(M, s, ms, k) ==
    DeleteLoop(FirstMatch(M, s, ms), SubSeq(ms, 1, k), 2, s.len, s.cap)

\* variant: "return src[:i], unused[:cap(unused)]", the spare comes back
\* with its length changed
DeleteWithSpareResliced(r, M, unused, s) ==
    IF ~r.ok THEN Crash(M, s, unused)
    ELSE IF Len(r.ms) = 0 THEN Ret(M, s, unused)
    ELSE [InPlaceReturn(M,
            TailStep(DeleteLoop(FirstMatch(M, s, r.ms), r.ms, 2, s.len, s.cap),
                     s.len, s.cap),
            s, unused) EXCEPT !.spare.len = unused.cap]

\* the closure of Delete after "ms := match(src)" returned r
DeleteWith(r, M, unused, s) ==
    IF ~r.ok THEN Crash(M, s, unused)
    ELSE IF Len(r.ms) = 0 THEN Ret(M, s, unused)
    ELSE InPlaceReturn(M,
            TailStep(DeleteLoop(FirstMatch(M, s, r.ms), r.ms, 2, s.len, s.cap),
                     s.len, s.cap),
            s, unused)

DeleteApply(match, M, unused, s) ==
    DeleteWith(Match(match, Bytes(M.heap, s)), M, unused, s)

\* Delete creates a Rewriter that removes all the matches of the Matcher
Delete(match) == [kind |-> "Delete", match |-> match]

----------------------------------------------------------------------------
(* Replace. *)

\* total length of all matches ("size += n")
RECURSIVE TotalSize(_)
TotalSize(ms) ==
    IF Len(ms) = 0 THEN 0 ELSE (ms[1][2] - ms[1][1]) + TotalSize(Tail(ms))

\* variant: overlap is never set
OverlapNever(ms, subst) == FALSE

\* variant: "overlap = overlap || n <= len(subst)"
OverlapOrEqual(ms, subst) == \E k \in 1..Len(ms) : ms[k][2] - ms[k][1] <= Len(subst)

\* "overlap = overlap || n < len(subst)" over all matches
Overlap(ms, subst) == \E k \in 1..Len(ms) : ms[k][2] - ms[k][1] < Len(subst)

\* "dest = append(append(dest, src[i:m[0]]...), subst...); i = m[1]" from
\* the k-th match on; st is [M, d, i] and the bytes of src are read from the
\* heap as it is at that moment
RECURSIVE ReplaceCopyLoop(_, _, _, _, _)
ReplaceCopyLoop(st, ms, k, s, subst) ==
    IF k > Len(ms) \/ ~st.M.ok THEN st
    ELSE IF ~(st.i <= ms[k][1] /\ ms[k][1] <= s.cap)
    THEN [st EXCEPT !.M.ok = FALSE]
    ELSE ReplaceCopyLoop(
            SetI(Appended(Appended(st, Sub(ArrayAt(st.M.heap, s), st.i, ms[k][1])),
                          subst),
                 ms[k][2]),
            ms, k + 1, s, subst)

\* variant: "return append(dest, src[i:]...), dest", the spare handed in is
\* returned and the buffer just read is let go
AppendTailKeepsSpare(st, s, spare) ==
    IF ~st.M.ok \/ ~(st.i <= s.len) THEN Crash(st.M, s, spare)
    ELSE RetAppended(AppendBytes(st.M, st.d, Sub(ArrayAt(st.M.heap, s), st.i, s.len)),
                     spare)

\* "return append(dest, src[i:]...), src"
AppendTail(st, s, spare) ==
    IF ~st.M.ok \/ ~(st.i <= s.len) THEN Crash(st.M, s, spare)
    ELSE RetAppended(AppendBytes(st.M, st.d, Sub(ArrayAt(st.M.heap, s), st.i, s.len)), s)

\* variant: "dest = make([]byte, 0, size)"
ReallocateExact(M, d, size) ==
    IF size > d.cap THEN Make(M, size) ELSE [M |-> M, s |-> d]

\* "if size > cap(dest) { dest = make([]byte, 0, size+size/5) }"
Reallocate(M, d, size) ==
    IF size > d.cap THEN Make(M, size + (size \div 5)) ELSE [M |-> M, s |-> d]

\* "for _, m := range ms[1:]" of the in-place branch of Replace
RECURSIVE ReplaceInPlaceLoop(_, _, _, _, _, _)
ReplaceInPlaceLoop(st, ms, k, len, cap, subst) ==
    IF k > Len(ms) \/ ~st.ok THEN st
    ELSE ReplaceInPlaceLoop(
            SetJ(SubstStep(CopyStep(st, len, cap, st.j, ms[k][1]), len, subst),
                 ms[k][2]),
            ms, k + 1, len, cap, subst)

\* the state [a, i, j, ok] of Replace's in-place loop once the first k
\* matches of ms are consumed
ReplaceStateAfter(M, s, ms, subst, k) ==
    ReplaceInPlaceLoop(SubstStep(FirstMatch(M, s, ms), s.len, subst),
                       SubSeq(ms, 1, k), 2, s.len, s.cap, subst)

\* the branch "if overlap": copy with replacement into dest
ReplaceCopy(ms, subst, M, d, s, size) ==
    AppendTail(ReplaceCopyLoop(LoopStart(Reallocate(M, d, size)), ms, 1, s, subst),
               s, d)

\* the in-place copy with replacement
ReplaceInPlace(ms, subst, M, d, s) ==
    InPlaceReturn(M,
        TailStep(ReplaceInPlaceLoop(SubstStep(FirstMatch(M, s, ms), s.len, subst),
                                    ms, 2, s.len, s.cap, subst),
                 s.len, s.cap),
        s, d)

\* the closure of Replace after "ms := match(src)" returned r and the first
\* loop left size
ReplaceWith(r, size, subst, M, d, s) ==
    IF ~r.ok THEN Crash(M, s, d)
    ELSE IF size = 0 THEN Ret(M, s, d)
    ELSE IF Overlap(r.ms, subst)
    THEN ReplaceCopy(r.ms, subst, M, d, s, s.len - size + Len(r.ms) * Len(subst))
    ELSE ReplaceInPlace(r.ms, subst, M, d, s)

ReplaceSized(r, subst, M, d, s) == ReplaceWith(r, TotalSize(r.ms), subst, M, d, s)

\* the closure Replace returns: func(dest, src []byte) ([]byte, []byte)
ReplaceApply(match, subst, M, d, s) ==
    ReplaceSized(Match(match, Bytes(M.heap, s)), subst, M, d, s)

\* the closure of the earlier Replace, which has no in-place branch: after
\* "ms := match(src)" returned r and the first loop left size, it always
\* copies with replacement into dest
ReplaceReallocating(r, size, subst, M, d, s) ==
    IF ~r.ok THEN Crash(M, s, d)
    ELSE IF size = 0 THEN Ret(M, s, d)
    ELSE ReplaceCopy(r.ms, subst, M, d, s, s.len - size + Len(r.ms) * Len(subst))

\* Replace creates a rewriter that substitutes all the matches with subst
Replace(match, subst) ==
    IF Len(subst) = 0 THEN Delete(match)
    ELSE [kind |-> "Replace", match |-> match, subst |-> subst]

----------------------------------------------------------------------------
(* Expand: Regexp.Expand and the Expand* rewriters. *)

\* the bytes that may form a group name in a template
WordBytes ==
    {"a", "b", "S", "o", "m", "e", "x", "p", "l", "t", "i", "Z", "0", "1", "_"}

DigitBytes == {"0", "1"}

\* the number a name made of digits denotes
RECURSIVE NumOf(_)
NumOf(name) ==
    IF Len(name) = 0 THEN 0
    ELSE 10 * NumOf(SubSeq(name, 1, Len(name) - 1))
         + (IF name[Len(name)] = "1" THEN 1 ELSE 0)

\* regexp's extract(str): the leading "name" or "{name}" of str, as
\* [ok, num, used]; num = -1 for a name that is not a number and used is the
\* number of bytes consumed
\* the length of the longest prefix of body made of name bytes
NameLen(body) ==
    CHOOSE k \in 0..Len(body) :
        /\ \A q \in 1..k : body[q] \in WordBytes
        /\ k < Len(body) => body[k + 1] \notin WordBytes

\* the number a name denotes, -1 for a name that is not a plain number
NameNum(name) ==
    IF (\E q \in 1..Len(name) : name[q] \notin DigitBytes)
       \/ (name[1] = "0" /\ Len(name) > 1)
    THEN -1 ELSE NumOf(name)

ExtractName(brace, body, i) ==
    IF i = 0 \/ (brace /\ ~(i < Len(body) /\ body[i + 1] = "}"))
    THEN [ok |-> FALSE, num |-> -1, used |-> 0]
    ELSE [ok |-> TRUE, num |-> NameNum(SubSeq(body, 1, i)),
          used |-> IF brace THEN i + 2 ELSE i]

Extract(str) ==
    IF Len(str) = 0 THEN [ok |-> FALSE, num |-> -1, used |-> 0]
    ELSE IF str[1] = "{" THEN ExtractName(TRUE, Tail(str), NameLen(Tail(str)))
    ELSE ExtractName(FALSE, str, NameLen(str))

\* Regexp.expand: the pieces appended to dst, in order, for one match of
\* buffer b; the model's patterns have no named groups
RECURSIVE ExpandPieces(_, _, _)
RECURSIVE ExpandDollar(_, _, _, _)
RECURSIVE ExpandName(_, _, _, _)
ExpandPieces(template, b, match) ==
    IF Len(template) = 0 THEN <<>>
    ELSE ExpandDollar(template, b, match, Index(template, <<"$">>))

\* the loop body of expand, d being the index of the first "$" (or -1)
ExpandDollar(template, b, match, d) ==
    IF d < 0 THEN <<template>>
    ELSE IF d + 1 < Len(template) /\ template[d + 2] = "$"
    THEN <<Sub(template, 0, d), <<"$">>>>
         \o ExpandPieces(Sub(template, d + 2, Len(template)), b, match)
    ELSE <<Sub(template, 0, d)>>
         \o ExpandName(Sub(template, d + 1, Len(template)), b, match,
                       Extract(Sub(template, d + 1, Len(template))))

\* variant: every reference expands to the whole match
ExpandNameWholeMatch(after, b, match, ex) ==
    IF ~ex.ok THEN <<<<"$">>>> \o ExpandPieces(after, b, match)
    ELSE <<Sub(b, match[1], match[2])>>
         \o ExpandPieces(Sub(after, ex.used, Len(after)), b, match)

\* the loop body of expand after extract(template) returned ex
ExpandName(after, b, match, ex) ==
    IF ~ex.ok THEN <<<<"$">>>> \o ExpandPieces(after, b, match)
    ELSE (IF ex.num >= 0 /\ 2 * ex.num + 1 < Len(match) /\ match[2 * ex.num + 1] >= 0
          THEN <<Sub(b, match[2 * ex.num + 1], match[2 * ex.num + 2])>>
          ELSE <<>>)
         \o ExpandPieces(Sub(after, ex.used, Len(after)), b, match)

\* the appends of one call of Regexp.Expand, st is [M, d, i]
RECURSIVE AppendPieces(_, _, _)
AppendPieces(st, pieces, k) ==
    IF k > Len(pieces) THEN st
    ELSE AppendPieces(Appended(st, pieces[k]), pieces, k + 1)

\* variant: the template is appended as it is
ExpandIntoVerbatim(st, template, s, m) == Appended(st, template)

\* re.Expand(dst, template, src, m) with dst the destination of st
ExpandInto(st, template, s, m) ==
    AppendPieces(st, ExpandPieces(template, Bytes(st.M.heap, s), m), 1)

\* "dest = re.Expand(append(dest, src[i:m[0]]...), []byte(subst), src, m);
\* i = m[1]" from the k-th match on
RECURSIVE ExpandCopyLoop(_, _, _, _, _)
ExpandCopyLoop(st, ms, k, s, subst) ==
    IF k > Len(ms) \/ ~st.M.ok THEN st
    ELSE IF ~(st.i <= ms[k][1] /\ ms[k][1] <= s.cap)
    THEN [st EXCEPT !.M.ok = FALSE]
    ELSE ExpandCopyLoop(
            SetI(ExpandInto(Appended(st, Sub(ArrayAt(st.M.heap, s), st.i, ms[k][1])),
                            subst, s, ms[k]),
                 ms[k][2]),
            ms, k + 1, s, subst)

\* variant: "if len(src) > cap(dest) { dest = src[:0] }", the buffer being
\* read serves as destination
SpeculateOntoSrc(M, d, s) ==
    IF s.len > d.cap THEN [M |-> M, s |-> SliceTo(s, 0)] ELSE [M |-> M, s |-> d]

\* "if len(src) > cap(dest) { dest = make([]byte, 0, len(src)+len(src)/5) }"
Speculate(M, d, s) ==
    IF s.len > d.cap THEN Make(M, s.len + (s.len \div 5)) ELSE [M |-> M, s |-> d]

\* the closure ExpandReN returns: func(dest, src []byte) ([]byte, []byte)
\* variant: no early return when nothing matched
ExpandWithAlwaysCopy(ms, subst, M, d, s) ==
    AppendTail(ExpandCopyLoop(LoopStart(Speculate(M, d, s)), ms, 1, s, subst), s, d)

\* the closure of ExpandReN after "ms := re.FindAllSubmatchIndex(src, n)"
ExpandWith(ms, subst, M, d, s) ==
    IF Len(ms) = 0 THEN Ret(M, s, d)
    ELSE AppendTail(ExpandCopyLoop(LoopStart(Speculate(M, d, s)), ms, 1, s, subst),
                    s, d)

ExpandApply(re, subst, n, M, d, s) ==
    ExpandWith(FindAllSubmatchIndex(re, Bytes(M.heap, s), n), subst, M, d, s)

\* variant: "return Delete(Re(re))", the match limit is dropped
ExpandReNDropsLimit(re, subst, n) ==
    IF re = NilRe
    THEN Panic("nil regular expression object in trw.ExpandReN() function")
    ELSE IF Len(subst) = 0 THEN Delete(Re(re))
    ELSE [kind |-> "Expand", re |-> re, subst |-> subst, n |-> n]

\* ExpandReN: Regexp.Expand() applied to the first n matches of re
ExpandReN(re, subst, n) ==
    IF re = NilRe
    THEN Panic("nil regular expression object in trw.ExpandReN() function")
    ELSE IF Len(subst) = 0 THEN Delete(ReN(re, n))
    ELSE [kind |-> "Expand", re |-> re, subst |-> subst, n |-> n]

\* ExpandRe: Regexp.Expand() applied to all matches of re
ExpandRe(re, subst) == ExpandReN(re, subst, -1)

\* ExpandN: Regexp.Expand() applied to the first n matches of the pattern
\* ExpandReN(re, subst, n) where re is what regexp.MustCompile returned or
\* panicked with
ExpandReNCompiled(re, subst, n) ==
    IF IsPanic(re) THEN re ELSE ExpandReN(re, subst, n)

ExpandN(patt, subst, n) ==
    IF patt = "" THEN Panic("empty pattern in trw.ExpandN() function")
    ELSE ExpandReNCompiled(MustCompile(patt), subst, n)

\* Expand: Regexp.Expand() applied to every match of the pattern
Expand(patt, subst) == ExpandN(patt, subst, -1)

----------------------------------------------------------------------------
(* Seq and the call of a Rewriter value. *)

\* the nil Rewriter (a nil func value)
NilRewriter == [kind |-> "nil"]

\* Seq is a sequential composition of Rewriters (Seq itself names the
\* sequence sets of module Sequences)
SeqRw(rewriters) ==
    CASE Len(rewriters) = 0 -> Panic("empty Rewriter list in trw.Seq() function")
      [] Len(rewriters) = 1 -> rewriters[1]
      [] OTHER -> [kind |-> "Seq", rewriters |-> rewriters]

\* variant: "fn(src, dest)", the spare keeps its length
SpareArgKeepsLen(spare) == spare

\* what the range loop of Seq's closure hands the next rewriter: (src[:0], dest)
SpareArg(spare) == SliceTo(spare, 0)

RECURSIVE Apply(_, _, _, _)
RECURSIVE SeqLoop(_, _, _)

\* fn(d, s): the call of Rewriter value fn with dest d and src s
Apply(fn, M, d, s) ==
    CASE fn.kind = "Delete" -> DeleteApply(fn.match, M, d, s)
      [] fn.kind = "Replace" -> ReplaceApply(fn.match, fn.subst, M, d, s)
      [] fn.kind = "Expand" -> ExpandApply(fn.re, fn.subst, fn.n, M, d, s)
      [] fn.kind = "Seq" ->
            \* "dest, src = src, dest", the loop, "return dest, src"
            SeqLoop(fn.rewriters, 1, Ret(M, s, d))
      [] OTHER -> Crash(M, s, d)

\* "for _, fn := range rewriters { dest, src = fn(src[:0], dest) }" from the
\* k-th rewriter on; r holds dest as r.res and src as r.spare
SeqLoop(rewriters, k, r) ==
    IF k > Len(rewriters) \/ ~r.ok THEN r
    ELSE SeqLoop(rewriters, k + 1,
                 Apply(rewriters[k], [heap |-> r.heap, allocs |-> r.allocs, ok |-> r.ok],
                       SpareArg(r.spare), r.res))

----------------------------------------------------------------------------
(* Constructor expressions.  A configuration is the expression the caller  *)
(* wrote, as a tree of calls; Eval runs it the way Go does: arguments      *)
(* first, and a panic in an argument unwinds before the enclosing call.    *)

CallLit(patt) == [fn |-> "Lit", patt |-> patt]

CallLitN(patt, n) == [fn |-> "LitN", patt |-> patt, n |-> n]

CallPatt(expr) == [fn |-> "Patt", expr |-> expr]

CallPattN(expr, n) == [fn |-> "PattN", expr |-> expr, n |-> n]

CallRe(re) == [fn |-> "Re", re |-> re]

CallReN(re, n) == [fn |-> "ReN", re |-> re, n |-> n]

CallNilMatcher == [fn |-> "nil"]

CallDelete(match) == [fn |-> "Delete", match |-> match]

CallReplace(match, subst) == [fn |-> "Replace", match |-> match, subst |-> subst]

CallExpand(expr, subst) == [fn |-> "Expand", expr |-> expr, subst |-> subst]

CallExpandN(expr, subst, n) ==
    [fn |-> "ExpandN", expr |-> expr, subst |-> subst, n |-> n]

CallExpandRe(re, subst) == [fn |-> "ExpandRe", re |-> re, subst |-> subst]

CallExpandReN(re, subst, n) ==
    [fn |-> "ExpandReN", re |-> re, subst |-> subst, n |-> n]

CallSeq(rewriters) == [fn |-> "Seq", rewriters |-> rewriters]

CallNilRewriter == [fn |-> "nil"]

\* the value of a Matcher expression
EvalMatcher(e) ==
    CASE e.fn = "Lit" -> Lit(e.patt)
      [] e.fn = "LitN" -> LitN(e.patt, e.n)
      [] e.fn = "Patt" -> Patt(e.expr)
      [] e.fn = "PattN" -> PattN(e.expr, e.n)
      [] e.fn = "Re" -> Re(e.re)
      [] e.fn = "ReN" -> ReN(e.re, e.n)
      [] OTHER -> NilMatcher

\* the value of a Rewriter expression
\* Delete(m), unless evaluating the argument m panicked
EvalDelete(m) == IF IsPanic(m) THEN m ELSE Delete(m)

\* Replace(m, subst), unless evaluating the argument m panicked
EvalReplace(m, subst) == IF IsPanic(m) THEN m ELSE Replace(m, subst)

\* Seq(rs...), unless evaluating an argument panicked: the first panic wins
EvalSeq(rs) ==
    IF \E k \in 1..Len(rs) : IsPanic(rs[k])
    THEN rs[SetMin({k \in 1..Len(rs) : IsPanic(rs[k])})]
    ELSE SeqRw(rs)

RECURSIVE EvalRewriter(_)
EvalRewriter(e) ==
    CASE e.fn = "Delete" -> EvalDelete(EvalMatcher(e.match))
      [] e.fn = "Replace" -> EvalReplace(EvalMatcher(e.match), e.subst)
      [] e.fn = "Expand" -> Expand(e.expr, e.subst)
      [] e.fn = "ExpandN" -> ExpandN(e.expr, e.subst, e.n)
      [] e.fn = "ExpandRe" -> ExpandRe(e.re, e.subst)
      [] e.fn = "ExpandReN" -> ExpandReN(e.re, e.subst, e.n)
      [] e.fn = "Seq" ->
            EvalSeq([k \in 1..Len(e.rewriters) |-> EvalRewriter(e.rewriters[k])])
      [] OTHER -> NilRewriter

----------------------------------------------------------------------------
(* The configurations and inputs explored. *)

ExampleInput ==
    <<"*", "S", "o", "m", "e", "S", "o", "m", "e", "*", " ", " ", "e", "x",
    "a", "m", "p", "l", "e", " ", " ", " ", " ", "_", "t", "e", "x", "t",
    "_">>

ExampleOutput ==
    <<"<", "b", ">", "S", "o", "m", "e", "<", "/", "b", ">", " ", "e", "x",
    "a", "m", "p", "l", "e", " ", "<", "i", ">", "t", "e", "x", "t", "<",
    "/", "i", ">">>

ItalicTemplate ==
    <<"<", "i", ">", "$", "{", "1", "}", "<", "/", "i", ">">>

BoldTemplate ==
    <<"<", "b", ">", "$", "{", "1", "}", "<", "/", "b", ">">>

\* var rewriter = Seq(Delete(LitN("Some", 1)), Replace(Patt(`[[:space:]]+`),
\* " "), Expand(`_([^_]+)_`, `<i>${1}</i>`), Expand(`\*([^\*]+)\*`, `<b>${1}</b>`))
ExampleRewriter ==
    CallSeq(<<CallDelete(CallLitN(<<"S", "o", "m", "e">>, 1)),
              CallReplace(CallPatt("[[:space:]]+"), <<" ">>),
              CallExpand("_([^_]+)_", ItalicTemplate),
              CallExpand("\\*([^\\*]+)\\*", BoldTemplate)>>)

\* Delete over the literal "Some", unbounded and limited to one match, and
\* a text that holds the literal twice
SomeText == <<"S", "o", "m", "e", "S", "o", "m", "e", " ", "t", "e", "x", "t">>

DeleteSome == CallDelete(CallLit(<<"S", "o", "m", "e">>))

DeleteSomeOnce == CallDelete(CallLitN(<<"S", "o", "m", "e">>, 1))

Literals == {<<"a">>, <<"a", "b">>, <<"a", "a">>}

Counts == {-1, 0, 1, 2}

Patterns == {"a+", "a*"}

Substs == {<<>>, <<"b">>, <<"a", "a">>, <<"b", "a", "b">>}

Templates == {<<>>, <<"Z", "$", "{", "0", "}">>, <<"$", "{", "1", "}", "$", "1">>}

MatcherCalls ==
    {CallLit(p) : p \in Literals \cup {<<>>}}
    \cup {CallLitN(p, n) : p \in Literals \cup {<<>>}, n \in Counts}
    \cup {CallPatt(e) : e \in Patterns \cup {"", "("}}
    \cup {CallPattN(e, n) : e \in Patterns \cup {""}, n \in Counts}
    \cup {CallRe(r) : r \in {NilRe, MustCompile("b+")}}
    \cup {CallReN(r, n) : r \in {NilRe, MustCompile("b+")}, n \in Counts}
    \cup {CallNilMatcher}

ExpandCalls ==
    {CallExpand(e, t) : e \in {"a+", "(a)", "b(a*)", "b(a)?", "", "("}, t \in Templates}
    \cup {CallExpandN(e, t, n) : e \in {"a*", ""}, t \in Templates, n \in {0, 1}}
    \cup {CallExpandRe(r, t) : r \in {NilRe, MustCompile("b+")}, t \in Templates}
    \cup {CallExpandReN(r, t, 1) : r \in {NilRe, MustCompile("(a)")}, t \in Templates}

StageCalls ==
    {CallDelete(m) : m \in MatcherCalls}
    \cup {CallReplace(m, s) : m \in MatcherCalls, s \in Substs}
    \cup ExpandCalls

\* the stages that pipelines of two and more stages are made of
CoreCalls ==
    {CallDelete(CallLit(<<"a">>)), CallDelete(CallLitN(<<"a", "b">>, 1)),
     CallDelete(CallPatt("a*")),
     CallReplace(CallLit(<<"a">>), <<"b">>),
     CallReplace(CallLit(<<"a", "b">>), <<"b", "a">>),
     CallReplace(CallLit(<<"b">>), <<"a", "b">>),
     CallReplace(CallPattN("a+", 1), <<"b", "a", "b">>),
     CallExpand("(a)", <<"$", "{", "1", "}", "$", "{", "1", "}">>),
     CallExpand("b(a*)", <<"$", "{", "1", "}">>)}

Configs ==
    StageCalls
    \cup {CallSeq(<<>>), CallNilRewriter, ExampleRewriter}
    \cup {DeleteSome, DeleteSomeOnce}
    \cup {CallSeq(<<r>>) : r \in CoreCalls \cup {CallNilRewriter}}
    \cup {CallSeq(<<r1, r2>>) : r1 \in CoreCalls, r2 \in CoreCalls}
    \cup {CallSeq(<<r, CallNilRewriter>>) : r \in CoreCalls}
    \cup {CallSeq(<<CallReplace(CallLit(<<"b">>), <<"a", "b">>), r>>) :
            r \in {CallReplace(CallLitN(<<"a">>, 1), <<>>),
                   CallExpandN("a*", <<>>, 1),
                   CallExpandRe(MustCompile("b+"), <<>>),
                   CallExpand("(a)", <<>>)}}
    \cup {CallSeq(<<r1, CallSeq(<<r2, r1>>), r2>>) :
            r1 \in {CallReplace(CallLit(<<"b">>), <<"a", "b">>),
                    CallExpand("(a)", <<"$", "{", "1", "}", "$", "{", "1", "}">>)},
            r2 \in CoreCalls}

\* the buffers handed to Do: every byte sequence over a and b up to MaxLen,
\* and nil
Inputs ==
    {[bytes |-> b, nil |-> FALSE] : b \in SeqsUpTo({"a", "b"}, MaxLen)}
    \cup {[bytes |-> <<>>, nil |-> TRUE]}

\* the expressions whose Rewriter is handed two buffers: count-limited
\* stages alone, in pipelines, in a nested pipeline and before a nil Rewriter
ReuseConfigs ==
    {CallDelete(CallLitN(<<"b">>, 1)),
     CallReplace(CallPattN("b+", 1), <<"a", "a">>),
     CallSeq(<<CallDelete(CallLitN(<<"b">>, 1)),
               CallReplace(CallLitN(<<"b">>, 1), <<"a", "b">>)>>),
     CallSeq(<<CallExpandN("(a)", <<"$", "{", "1", "}", "$", "{", "1", "}">>, 1),
               CallDelete(CallLitN(<<"b">>, 1))>>),
     CallSeq(<<CallDelete(CallLitN(<<"b">>, 1)),
               CallSeq(<<CallDelete(CallLitN(<<"b">>, 1)),
                         CallDelete(CallReN(MustCompile("b+"), 1))>>)>>),
     CallSeq(<<CallDelete(CallLitN(<<"b">>, 1)), CallNilRewriter>>)}

\* the buffers those Rewriters are handed
ReuseInputs ==
    {[bytes |-> b, nil |-> FALSE] :
        b \in {<<>>, <<"b">>, <<"b", "b">>, <<"a", "b">>, <<"b", "a", "b">>}}

\* the buffers handed to the Rewriter built from expression c: the README's
\* rewriter is also run on the README's text, the Delete of "Some" on the
\* text that holds it twice
InputsOf(c) ==
    IF c = ExampleRewriter
    THEN Inputs \cup {[bytes |-> ExampleInput, nil |-> FALSE]}
    ELSE IF c \in {DeleteSome, DeleteSomeOnce}
    THEN Inputs \cup {[bytes |-> SomeText, nil |-> FALSE]}
    ELSE IF c \in ReuseConfigs
    THEN ReuseInputs
    ELSE Inputs

\* the heap and the slice header of the caller's buffer; the capacity of a
\* buffer the caller made is at least its length
InputHeap(in) == IF in.nil THEN <<>> ELSE <<ArrayOf(in.bytes, Len(in.bytes) + slack)>>

InputSlice(in) ==
    IF in.nil THEN NilSlice
    ELSE [arr |-> 1, len |-> Len(in.bytes), cap |-> Len(in.bytes) + slack]

----------------------------------------------------------------------------
(* The state machine: build a Rewriter, then run Rewriter.Do on a buffer.  *)
(* The closure of a top-level Seq runs one rewriter of its range loop per  *)
(* step; every other Rewriter call is one step.                            *)

Unbuilt == [kind |-> "unbuilt"]

\* no application is set aside
NoApp == [phase |-> "none"]

\* no Matcher closure has been called by itself
NoScan == [at |-> "none"]

\* the Matcher value after it was called on s: of what the closures capture
\* (patt, n, re) only the n of LitN is a variable the closure's loop names
MatcherAfter(match, s) ==
    IF match.kind = "LitN"
    THEN [match EXCEPT !.n = LitNCaptured(match.patt, match.n, s)]
    ELSE match

\* the Rewriter value after it was called on s: the closures of Delete and
\* Replace capture their Matcher, the others only values they read
RewriterAfter(fn, s) ==
    IF fn.kind \in {"Delete", "Replace"}
    THEN [fn EXCEPT !.match = MatcherAfter(fn.match, s)]
    ELSE fn

Init ==
    /\ phase = "config"
    /\ cfg \in Configs
    /\ slack \in 0..MaxSlack
    /\ rw = Unbuilt
    /\ input = [bytes |-> <<>>, nil |-> TRUE]
    /\ given = [d |-> NilSlice, s |-> NilSlice, heap |-> <<>>]
    /\ heap = <<>>
    /\ dest = NilSlice
    /\ src = NilSlice
    /\ pc = 0
    /\ allocs = 0
    /\ other = NoApp
    /\ again = FALSE
    /\ scan = NoScan

\* the constructor expression is evaluated
Build ==
    /\ phase = "config"
    /\ rw' = EvalRewriter(cfg)
    /\ phase' = IF IsPanic(rw') THEN "config_error" ELSE "built"
    /\ UNCHANGED <<cfg, input, heap, dest, src, pc, allocs, slack, given, other, again, scan>>

\* the machine state a closure call starts from
Machine == [heap |-> heap, allocs |-> allocs, ok |-> TRUE]

\* the variables after a closure call returned (or panicked with) r
Returned(r, nextPhase) ==
    /\ dest' = r.res
    /\ src' = r.spare
    /\ heap' = r.heap
    /\ allocs' = r.allocs
    /\ phase' = IF r.ok THEN nextPhase ELSE "panicked"

\* variant: the closure does not swap its arguments, dest = nil, src = b
DoSeqNoSwap ==
    /\ phase = "built"
    /\ rw.kind = "Seq"
    /\ \E in \in InputsOf(cfg) :
        /\ input' = in
        /\ heap' = InputHeap(in)
        /\ src' = InputSlice(in)
    /\ dest' = NilSlice
    /\ pc' = 1
    /\ phase' = "running"
    /\ UNCHANGED <<cfg, rw, allocs, slack, given, other, again, scan>>

\* rw.Do(b) for the closure of Seq: "result, _ = rw(nil, src)" enters the
\* closure, which swaps its arguments: dest = b, src = nil
DoSeq ==
    /\ phase = "built"
    /\ rw.kind = "Seq"
    /\ \E in \in InputsOf(cfg) :
        /\ input' = in
        /\ heap' = InputHeap(in)
        /\ dest' = InputSlice(in)
    /\ src' = NilSlice
    /\ pc' = 1
    /\ phase' = "running"
    /\ UNCHANGED <<cfg, rw, allocs, slack, given, other, again, scan>>

\* rw.Do(b) for any other Rewriter value: one call rw(nil, b)
DoLeaf ==
    /\ phase = "built"
    /\ rw.kind # "Seq"
    /\ \E in \in InputsOf(cfg) :
        /\ input' = in
        /\ given' = [d |-> NilSlice, s |-> InputSlice(in), heap |-> InputHeap(in)]
        /\ Returned(Apply(rw, [heap |-> InputHeap(in), allocs |-> 0, ok |-> TRUE],
                          NilSlice, InputSlice(in)), "done")
        /\ rw' = RewriterAfter(rw, in.bytes)
    /\ UNCHANGED <<cfg, pc, slack, other, again, scan>>

\* the range loop of the closure is at a rewriter of the given kind
AtStage(kind) ==
    /\ phase = "running"
    /\ pc <= Len(rw.rewriters)
    /\ rw.rewriters[pc].kind = kind

\* one iteration "dest, src = fn(src[:0], dest)"
Iterate ==
    /\ Returned(Apply(rw.rewriters[pc], Machine, SpareArg(src), dest), "running")
    /\ given' = [d |-> SpareArg(src), s |-> dest, heap |-> heap]
    /\ pc' = pc + 1
    /\ rw' = [rw EXCEPT !.rewriters[pc] = RewriterAfter(@, Bytes(heap, dest))]
    /\ UNCHANGED <<cfg, input, slack, other, again, scan>>

\* the iteration calls the closure of Delete
StepDelete ==
    /\ AtStage("Delete")
    /\ Iterate

\* the iteration calls the closure of Replace
StepReplace ==
    /\ AtStage("Replace")
    /\ Iterate

\* the iteration calls the closure of ExpandReN
StepExpand ==
    /\ AtStage("Expand")
    /\ Iterate

\* the iteration calls the closure of a nested Seq
StepSeq ==
    /\ AtStage("Seq")
    /\ Iterate

\* the iteration calls a nil Rewriter
StepNil ==
    /\ AtStage("nil")
    /\ Iterate

\* "return dest, src" of the closure and "return" of Do
Return ==
    /\ phase = "running"
    /\ pc > Len(rw.rewriters)
    /\ phase' = "done"
    /\ UNCHANGED <<cfg, rw, input, heap, dest, src, pc, allocs, slack, given, other, again, scan>>

Next ==
    \/ Build
    \/ DoSeq
    \/ DoLeaf
    \/ StepDelete
    \/ StepReplace
    \/ StepExpand
    \/ StepSeq
    \/ StepNil
    \/ Return

Spec == Init /\ [][Next]_vars

----------------------------------------------------------------------------
(* One Rewriter value handed two buffers: the second Do after the first    *)
(* returned, or while the first is between two rewriters of its range loop *)
(* (a second goroutine); each Do has its own buffers, rw is shared.        *)

InitReuse ==
    /\ phase = "config"
    /\ cfg \in ReuseConfigs
    /\ slack \in 0..MaxSlack
    /\ rw = Unbuilt
    /\ input = [bytes |-> <<>>, nil |-> TRUE]
    /\ given = [d |-> NilSlice, s |-> NilSlice, heap |-> <<>>]
    /\ heap = <<>>
    /\ dest = NilSlice
    /\ src = NilSlice
    /\ pc = 0
    /\ allocs = 0
    /\ other = NoApp
    /\ again = FALSE
    /\ scan = NoScan

\* the locals of the Do that is running
ThisApp ==
    [phase |-> phase, input |-> input, heap |-> heap, dest |-> dest, src |-> src,
     pc |-> pc, allocs |-> allocs, given |-> given]

\* the Do of app runs on
Switch(app) ==
    /\ phase' = app.phase
    /\ input' = app.input
    /\ heap' = app.heap
    /\ dest' = app.dest
    /\ src' = app.src
    /\ pc' = app.pc
    /\ allocs' = app.allocs
    /\ given' = app.given

\* a Do that has not been called yet
NewApp ==
    [phase |-> "built", input |-> [bytes |-> <<>>, nil |-> TRUE], heap |-> <<>>,
     dest |-> NilSlice, src |-> NilSlice, pc |-> 0, allocs |-> 0,
     given |-> [d |-> NilSlice, s |-> NilSlice, heap |-> <<>>]]

\* Do has returned and the caller calls rw.Do once more
DoAgain ==
    /\ phase = "done"
    /\ ~again
    /\ again' = TRUE
    /\ other' = ThisApp
    /\ Switch(NewApp)
    /\ UNCHANGED <<cfg, rw, slack, scan>>

\* while Do is between two rewriters, another caller calls rw.Do
Park ==
    /\ phase = "running"
    /\ ~again
    /\ again' = TRUE
    /\ other' = ThisApp
    /\ Switch(NewApp)
    /\ UNCHANGED <<cfg, rw, slack, scan>>

\* the scheduler turns to the other Do
Resume ==
    /\ again
    /\ phase \in {"running", "done", "panicked"}
    /\ other.phase = "running"
    /\ other' = ThisApp
    /\ Switch(other)
    /\ UNCHANGED <<cfg, rw, slack, again, scan>>

NextReuse ==
    \/ Next
    \/ DoAgain
    \/ Park
    \/ Resume

SpecReuse == InitReuse /\ [][NextReuse]_vars

----------------------------------------------------------------------------
(* The closures of Lit and LitN by themselves, one iteration of their for  *)
(* loop per step: match(s) for the Matcher of a Delete and a buffer s.     *)
(* scan holds the loop variables b, i (Lit), n (LitN) and ms, and at, the  *)
(* position: "loop" before the loop condition is tested, "returned" or     *)
(* "panicked" after the closure ended.                                     *)

\* the Deletes over literal Matchers
ScanConfigs ==
    {CallDelete(CallLit(p)) : p \in Literals}
    \cup {CallDelete(CallLitN(p, n)) : p \in Literals, n \in Counts}

InitScan ==
    /\ phase = "config"
    /\ cfg \in ScanConfigs
    /\ slack \in 0..MaxSlack
    /\ rw = Unbuilt
    /\ input = [bytes |-> <<>>, nil |-> TRUE]
    /\ given = [d |-> NilSlice, s |-> NilSlice, heap |-> <<>>]
    /\ heap = <<>>
    /\ dest = NilSlice
    /\ src = NilSlice
    /\ pc = 0
    /\ allocs = 0
    /\ other = NoApp
    /\ again = FALSE
    /\ scan = NoScan

\* the loop variables after "b += i; ms = append(ms, []int{b, b +
\* len(patt)}); b += len(patt)"
ScanFound(sc, patt, i) ==
    [sc EXCEPT !.b = sc.b + i + Len(patt),
               !.ms = Append(@, <<sc.b + i, sc.b + i + Len(patt)>>)]

\* "i = bytes.Index(s[b:], []byte(patt))"; s[b:] panics for b > len(s)
ScanIndex(sc, s, patt) ==
    IF sc.b > Len(s) THEN [sc EXCEPT !.at = "panicked"]
    ELSE [sc EXCEPT !.i = Index(Sub(s, sc.b, Len(s)), patt)]

\* the closure of Lit is called: "b, i := 0, bytes.Index(s, []byte(patt))"
EnterLit ==
    /\ phase = "built"
    /\ scan.at = "none"
    /\ rw.match.kind = "Lit"
    /\ \E in \in InputsOf(cfg) :
        /\ input' = in
        /\ scan' = [at |-> "loop", b |-> 0, i |-> Index(in.bytes, rw.match.patt),
                    n |-> -1, ms |-> <<>>]
    /\ UNCHANGED <<phase, cfg, rw, heap, dest, src, pc, allocs, slack, given, other,
                   again>>

\* "i >= 0" holds: the body of Lit's loop, then its post statement
LitIterate ==
    /\ scan.at = "loop"
    /\ rw.match.kind = "Lit"
    /\ scan.i >= 0
    /\ scan' = ScanIndex(ScanFound(scan, rw.match.patt, scan.i), input.bytes,
                         rw.match.patt)
    /\ UNCHANGED <<phase, cfg, rw, input, heap, dest, src, pc, allocs, slack, given,
                   other, again>>

\* "i >= 0" fails: "return"
LitReturn ==
    /\ scan.at = "loop"
    /\ rw.match.kind = "Lit"
    /\ scan.i < 0
    /\ scan' = [scan EXCEPT !.at = "returned"]
    /\ UNCHANGED <<phase, cfg, rw, input, heap, dest, src, pc, allocs, slack, given,
                   other, again>>

\* the closure of LitN is called: "n, b := n, 0"
EnterLitN ==
    /\ phase = "built"
    /\ scan.at = "none"
    /\ rw.match.kind = "LitN"
    /\ \E in \in InputsOf(cfg) :
        /\ input' = in
        /\ scan' = [at |-> "loop", b |-> 0, i |-> -1, n |-> rw.match.n, ms |-> <<>>]
    /\ UNCHANGED <<phase, cfg, rw, heap, dest, src, pc, allocs, slack, given, other,
                   again>>

\* the loop variables after the body of LitN's loop found the literal at i,
\* and after "n--"
ScanCounted(sc, patt) ==
    IF sc.at = "panicked" THEN sc
    ELSE [ScanFound(sc, patt, sc.i) EXCEPT !.n = sc.n - 1]

\* variant: the post statement "n--" is missing
LitNIterateNoCount ==
    /\ scan.at = "loop"
    /\ rw.match.kind = "LitN"
    /\ scan.n > 0
    /\ ScanIndex(scan, input.bytes, rw.match.patt).i >= 0
    /\ scan' = ScanFound(ScanIndex(scan, input.bytes, rw.match.patt),
                         rw.match.patt,
                         ScanIndex(scan, input.bytes, rw.match.patt).i)
    /\ UNCHANGED <<phase, cfg, rw, input, heap, dest, src, pc, allocs, slack, given,
                   other, again>>

\* "n > 0" holds and bytes.Index(s[b:], []byte(patt)) found the literal: the
\* body of LitN's loop, then "n--"
LitNIterate ==
    /\ scan.at = "loop"
    /\ rw.match.kind = "LitN"
    /\ scan.n > 0
    /\ ScanIndex(scan, input.bytes, rw.match.patt).i >= 0
    /\ scan' = ScanCounted(ScanIndex(scan, input.bytes, rw.match.patt), rw.match.patt)
    /\ UNCHANGED <<phase, cfg, rw, input, heap, dest, src, pc, allocs, slack, given,
                   other, again>>

\* "n > 0" holds and the literal is not found: "break", "return"
LitNBreak ==
    /\ scan.at = "loop"
    /\ rw.match.kind = "LitN"
    /\ scan.n > 0
    /\ ScanIndex(scan, input.bytes, rw.match.patt).i < 0
    /\ scan' = [scan EXCEPT !.at = "returned"]
    /\ UNCHANGED <<phase, cfg, rw, input, heap, dest, src, pc, allocs, slack, given,
                   other, again>>

\* "n > 0" fails: "return"
LitNReturn ==
    /\ scan.at = "loop"
    /\ rw.match.kind = "LitN"
    /\ scan.n <= 0
    /\ scan' = [scan EXCEPT !.at = "returned"]
    /\ UNCHANGED <<phase, cfg, rw, input, heap, dest, src, pc, allocs, slack, given,
                   other, again>>

NextScan ==
    \/ Build
    \/ EnterLit
    \/ LitIterate
    \/ LitReturn
    \/ EnterLitN
    \/ LitNIterate
    \/ LitNBreak
    \/ LitNReturn

\* a call that has begun runs on: nothing suspends a closure
SpecScan == InitScan /\ [][NextScan]_vars /\ WF_vars(NextScan)

\* the bytes of the current buffer: at "done", the result Do returned
Result == Bytes(heap, dest)

\* a Rewriter closure other than Seq's has been called and has returned
Called ==
    \/ rw.kind \notin {"Seq", "unbuilt", "panic"} /\ phase = "done"
    \/ rw.kind = "Seq" /\ phase \in {"running", "done"} /\ pc >= 2

\* the Rewriter value of that call, the expression that built it, and the
\* bytes of the buffer it was given as src
LastFn == IF rw.kind = "Seq" THEN rw.rewriters[pc - 1] ELSE rw

LastCall == IF rw.kind = "Seq" THEN cfg.rewriters[pc - 1] ELSE cfg

GivenBytes == Bytes(given.heap, given.s)

----------------------------------------------------------------------------
(* What the claims are stated with. *)

\* the sum of the span lengths of a match sequence
RECURSIVE SumSpans(_)
SumSpans(ms) ==
    IF Len(ms) = 0 THEN 0 ELSE (ms[1][2] - ms[1][1]) + SumSpans(Tail(ms))

\* byte position p (1-based) of a buffer lies inside a span of ms
Matched(ms, p) == \E k \in 1..Len(ms) : ms[k][1] < p /\ p <= ms[k][2]

\* b with every matched span removed, the other bytes in their order
RECURSIVE KeptFrom(_, _, _)
KeptFrom(b, ms, p) ==
    IF p > Len(b) THEN <<>>
    ELSE (IF Matched(ms, p) THEN <<>> ELSE <<b[p]>>) \o KeptFrom(b, ms, p + 1)

Kept(b, ms) == KeptFrom(b, ms, 1)

\* the matches the Matcher of the last call finds in the buffer it was given
LastMatches == Match(LastFn.match, GivenBytes).ms

\* the last call was a call of the closure of one of the given kinds
LastWas(kinds) == Called /\ LastFn.kind \in kinds

\* rewriter fn finds nothing to rewrite in b
NoMatchIn(fn, b) ==
    CASE fn.kind \in {"Delete", "Replace"} -> Match(fn.match, b) = [ms |-> <<>>, ok |-> TRUE]
      [] fn.kind = "Expand" -> FindAllSubmatchIndex(fn.re, b, fn.n) = <<>>
      [] OTHER -> FALSE

\* t is the end of r
EndsWith(r, t) ==
    Len(r) >= Len(t) /\ SubSeq(r, Len(r) - Len(t) + 1, Len(r)) = t

\* the Rewriter value holds a nil Matcher or a nil Rewriter
RECURSIVE HasNil(_)
HasNil(fn) ==
    \/ fn.kind = "nil"
    \/ fn.kind \in {"Delete", "Replace"} /\ fn.match.kind = "nil"
    \/ fn.kind = "Seq" /\ \E k \in 1..Len(fn.rewriters) : HasNil(fn.rewriters[k])

\* the Matcher expression is one the constructors have to reject
BadMatcherCall(m) ==
    \/ m.fn \in {"Lit", "LitN"} /\ Len(m.patt) = 0
    \/ m.fn \in {"Patt", "PattN"} /\ m.expr = ""
    \/ m.fn \in {"Re", "ReN"} /\ m.re = NilRe

\* the Rewriter expression holds a call the constructors have to reject
RECURSIVE BadCall(_)
BadCall(e) ==
    \/ e.fn \in {"Delete", "Replace"} /\ BadMatcherCall(e.match)
    \/ e.fn \in {"Expand", "ExpandN"} /\ e.expr = ""
    \/ e.fn \in {"ExpandRe", "ExpandReN"} /\ e.re = NilRe
    \/ e.fn = "Seq" /\ Len(e.rewriters) = 0
    \/ e.fn = "Seq" /\ \E k \in 1..Len(e.rewriters) : BadCall(e.rewriters[k])

\* the Rewriter expression passes a nil Matcher to Delete or Replace, or a
\* nil Rewriter to Seq
RECURSIVE HasNilCall(_)
HasNilCall(e) ==
    \/ e.fn \in {"Delete", "Replace"} /\ e.match.fn = "nil"
    \/ e.fn = "Seq" /\ \E k \in 1..Len(e.rewriters) :
            e.rewriters[k].fn = "nil" \/ HasNilCall(e.rewriters[k])

\* the count-limited Matcher expression without its limit
Unlimited(m) ==
    CASE m.fn = "LitN" -> CallLit(m.patt)
      [] m.fn = "PattN" -> CallPatt(m.expr)
      [] m.fn = "ReN" -> CallRe(m.re)

\* fn.Do(r.res) for the buffer r.res a previous Do returned
DoNext(fn, r) ==
    IF ~r.ok THEN r
    ELSE Apply(fn, [heap |-> r.heap, allocs |-> r.allocs, ok |-> TRUE], NilSlice, r.res)

\* rewriters[n].Do(... rewriters[1].Do(input) ...)
RECURSIVE DoOneByOne(_, _)
DoOneByOne(rewriters, n) ==
    IF n = 0
    THEN Ret([heap |-> InputHeap(input), allocs |-> 0, ok |-> TRUE],
             InputSlice(input), NilSlice)
    ELSE DoNext(rewriters[n], DoOneByOne(rewriters, n - 1))

BytesOf(r) == Bytes(r.heap, r.res)

----------------------------------------------------------------------------
(* The claims. *)

\* C1: across one execution of a pipeline at most one buffer is allocated
\* beyond the input buffer, make and the growth of append counted.
C1_AtMostOneAllocation == allocs <= 1

\* C2: the closure of Seq(r1..rk) has, after each of its rewriters, the bytes
\* that r1.Do, .., rk.Do applied one after another give, although each stage
\* of Seq is handed the spare of the stage before and each Do starts from nil.
C2_SeqIsComposition ==
    (rw.kind = "Seq" /\ phase \in {"running", "done"})
        => Result = BytesOf(DoOneByOne(rw.rewriters, pc - 1))

\* a pipeline whose last stage wrote into the spare an earlier stage left
C2_Witness ==
    /\ rw.kind = "Seq"
    /\ phase = "done"
    /\ dest.arr = 1
    /\ src.arr = 2
    /\ Len(input.bytes) > 0
    /\ Result # input.bytes

\* C3: Delete returns the buffer with every matched span removed and the
\* other bytes in their order; its length is len(b) minus the span lengths.
C3_DeleteRemovesSpans ==
    LastWas({"Delete"})
        => /\ Result = Kept(GivenBytes, LastMatches)
           /\ Len(Result) = Len(GivenBytes) - SumSpans(LastMatches)

\* a Delete with a match at the start, a match at the end and two adjacent
\* matches
C3_Witness ==
    /\ LastWas({"Delete"})
    /\ Len(LastMatches) >= 3
    /\ LastMatches[1][1] = 0
    /\ LastMatches[Len(LastMatches)][2] = Len(GivenBytes)
    /\ LastMatches[1][2] = LastMatches[2][1]
    /\ Len(Result) > 0

\* C4: Replace with a non-empty substitution returns the buffer itself when
\* there is no match, and otherwise, zero-length matches included, a result
\* of length len(b) - sum of spans + |M| * len(s).
C4_ReplaceLength ==
    LastWas({"Replace"})
        => IF Len(LastMatches) = 0
           THEN dest = given.s /\ heap = given.heap
           ELSE Len(Result) = Len(GivenBytes) - SumSpans(LastMatches)
                              + Len(LastMatches) * Len(LastFn.subst)

\* C5: a count-limited matcher yields the first min(n, all) matches of the
\* unlimited matcher (all of them for n < 0), and a Delete or Replace built
\* on it leaves the bytes after the last of them as they were.
C5_CountLimit ==
    (Called /\ LastCall.fn \in {"Delete", "Replace"}
            /\ LastCall.match.fn \in {"LitN", "PattN", "ReN"})
        => LET n == LastCall.match.n
               full == Match(EvalMatcher(Unlimited(LastCall.match)), GivenBytes).ms
           IN  /\ LastMatches =
                    IF n < 0 THEN full ELSE SubSeq(full, 1, Min(n, Len(full)))
               /\ Len(LastMatches) > 0
                    => EndsWith(Result, Sub(GivenBytes,
                                            LastMatches[Len(LastMatches)][2],
                                            Len(GivenBytes)))

\* a Delete over LitN(p, 1) on a buffer with more than one occurrence of p
C5_Witness ==
    /\ Called
    /\ LastCall.fn = "Delete"
    /\ LastCall.match.fn = "LitN"
    /\ LastCall.match.n = 1
    /\ Len(Match(Lit(LastCall.match.patt), GivenBytes).ms) >= 2
    /\ Len(Result) = Len(GivenBytes) - Len(LastCall.match.patt)

\* C6: Do on a Rewriter built over the library's matchers never panics, for
\* any buffer, and a buffer without matches comes back as it was.
C6_DoNeverFails ==
    /\ phase = "panicked" => HasNil(rw)
    /\ (Called /\ NoMatchIn(LastFn, GivenBytes))
            => Result = GivenBytes /\ dest = given.s

\* Do returned for a nil buffer handed to a pipeline in which a pattern
\* matched the empty buffer
C6_Witness ==
    /\ phase = "done"
    /\ input.nil
    /\ rw.kind = "Seq"
    /\ \E k \in 1..Len(rw.rewriters) :
            /\ rw.rewriters[k].kind = "Delete"
            /\ rw.rewriters[k].match.kind = "ReN"
            /\ Len(Match(rw.rewriters[k].match, <<>>).ms) > 0

\* C7: an expression with an empty literal, an empty pattern, a nil regexp
\* or an empty Seq panics while it is evaluated and yields no value.
C7_BadConfigRejected ==
    (phase # "config" /\ BadCall(cfg)) => (phase = "config_error" /\ IsPanic(rw))

\* LitN with a negative count and an empty literal was rejected
C7_Witness ==
    /\ phase = "config_error"
    /\ cfg.fn = "Delete"
    /\ cfg.match.fn = "LitN"
    /\ cfg.match.n < 0
    /\ Len(cfg.match.patt) = 0

\* C8: Delete or Replace of a nil Matcher, and Seq of a list with a nil
\* Rewriter, fail when the Rewriter is built.
C8_NilRejectedAtBuild ==
    (phase # "config" /\ HasNilCall(cfg)) => phase = "config_error"

\* C9: when nothing matches, Delete, Replace and Expand return the pair they
\* were given: the same slices, the heap untouched, nothing allocated.
C9_NoMatchReturnsPair ==
    (LastWas({"Delete", "Replace", "Expand"}) /\ NoMatchIn(LastFn, GivenBytes))
        => /\ dest = given.s
           /\ src = given.d
           /\ heap = given.heap
           /\ Bytes(heap, dest) = GivenBytes

\* a Delete stage late in a pipeline found nothing to delete in a non-empty
\* buffer, and the spare an earlier stage had left it has capacity
C9_Witness ==
    /\ rw.kind = "Seq"
    /\ phase \in {"running", "done"}
    /\ pc >= 3
    /\ LastFn.kind = "Delete"
    /\ NoMatchIn(LastFn, GivenBytes)
    /\ Len(GivenBytes) > 0
    /\ given.d.cap > 0

AfterDelete ==
    <<"*", "S", "o", "m", "e", "*", " ", " ", "e", "x", "a", "m", "p", "l",
    "e", " ", " ", " ", " ", "_", "t", "e", "x", "t", "_">>

AfterReplace ==
    <<"*", "S", "o", "m", "e", "*", " ", "e", "x", "a", "m", "p", "l", "e",
    " ", "_", "t", "e", "x", "t", "_">>

AfterItalic ==
    <<"*", "S", "o", "m", "e", "*", " ", "e", "x", "a", "m", "p", "l", "e",
    " ", "<", "i", ">", "t", "e", "x", "t", "<", "/", "i", ">">>

\* C10: the README's pipeline turns "*SomeSome*  example    _text_" into
\* "<b>Some</b> example <i>text</i>", stage by stage: Delete and Replace in
\* the input's own array, each Expand into another array.
C10_Example ==
    (cfg = ExampleRewriter /\ input.bytes = ExampleInput
        /\ phase \in {"running", "done"})
        => /\ pc = 2 => Result = AfterDelete /\ dest.arr = 1
           /\ pc = 3 => Result = AfterReplace /\ dest.arr = 1
           /\ pc = 4 => Result = AfterItalic /\ dest.arr # 1 /\ src.arr = 1
           /\ pc = 5 => Result = ExampleOutput /\ dest.arr # given.s.arr
           /\ phase = "done" => pc = 5

C10_Witness ==
    /\ cfg = ExampleRewriter
    /\ input.bytes = ExampleInput
    /\ phase = "done"

\* Do returned for the text with "Some" twice, handed to the Rewriter of c
RanOnSome(c) == cfg = c /\ input.bytes = SomeText /\ phase = "done"

\* C11 as stated: Delete(Lit("Some")) turns "SomeSome text" into "Some text".
C11_DeleteSomeLeavesOne ==
    RanOnSome(DeleteSome) => Result = <<"S", "o", "m", "e", " ", "t", "e", "x", "t">>

\* C11 amended: Delete(Lit("Some")) removes both occurrences and turns
\* "SomeSome text" into " text"; "Some text" is what Delete(LitN("Some", 1))
\* returns for it.
C11_DeleteSomeRemovesAll ==
    /\ RanOnSome(DeleteSome) => Result = <<" ", "t", "e", "x", "t">>
    /\ RanOnSome(DeleteSomeOnce)
            => Result = <<"S", "o", "m", "e", " ", "t", "e", "x", "t">>

C11_Witness == RanOnSome(DeleteSome) /\ Len(Result) = 5

\* every match of ms is exactly n bytes long
AllSpans(ms, n) == \A k \in 1..Len(ms) : ms[k][2] - ms[k][1] = n

\* what the always-reallocating Replace returns for the arguments of the
\* last call
LastReallocating ==
    ReplaceReallocating([ms |-> LastMatches, ok |-> TRUE], SumSpans(LastMatches),
                        LastFn.subst,
                        [heap |-> given.heap, allocs |-> 0, ok |-> TRUE],
                        given.d, given.s)

\* C12: when every match is as long as the substitution, Replace works in
\* place and returns the bytes the always-reallocating Replace returns for
\* the same buffer and matches; the result is as long as the input.
C12_InPlaceEqualsReallocating ==
    (LastWas({"Replace"}) /\ Len(LastMatches) > 0
        /\ AllSpans(LastMatches, Len(LastFn.subst)))
        => /\ dest.arr = given.s.arr
           /\ Result = BytesOf(LastReallocating)
           /\ LastReallocating.res.arr # given.s.arr
           /\ Len(Result) = Len(GivenBytes)

\* two matches of two bytes each were replaced by two other bytes
C12_Witness ==
    /\ LastWas({"Replace"})
    /\ Len(LastMatches) >= 2
    /\ Len(LastFn.subst) = 2
    /\ AllSpans(LastMatches, 2)
    /\ Result # GivenBytes

\* the literal p stands in s at the 0-based position i
OccursAt(s, p, i) ==
    /\ 0 <= i
    /\ i + Len(p) <= Len(s)
    /\ \A q \in 1..Len(p) : s[i + q] = p[q]

\* where the search for the k-th match of ms began
SearchedFrom(ms, k) == IF k = 1 THEN 0 ELSE ms[k - 1][2]

\* ms is a sequence of matches of the literal p in s: each one in range, as
\* long as p and equal to p, the earliest occurrence at or after the end of
\* the one before
LiteralMatches(ms, s, p) ==
    \A k \in 1..Len(ms) :
        /\ 0 <= ms[k][1] /\ ms[k][1] < ms[k][2] /\ ms[k][2] <= Len(s)
        /\ ms[k][2] - ms[k][1] = Len(p)
        /\ OccursAt(s, p, ms[k][1])
        /\ SearchedFrom(ms, k) <= ms[k][1]
        /\ \A i \in SearchedFrom(ms, k)..(ms[k][1] - 1) : ~OccursAt(s, p, i)

\* no occurrence of p begins in s at or after the end of the last match
NoneAfter(ms, s, p) ==
    \A i \in SearchedFrom(ms, Len(ms) + 1)..Len(s) : ~OccursAt(s, p, i)

\* the last call was Delete or Replace over a literal matcher
LastWasLiteral ==
    LastWas({"Delete", "Replace"}) /\ LastFn.match.kind \in {"Lit", "LitN"}

\* C13: the matches of Lit(p) and LitN(p, n) in s are in range, as long as p
\* and equal to p, increasing without overlap, each the earliest occurrence
\* at or after the end of the one before; Lit, and LitN short of its limit,
\* leave no occurrence after the last match.
C13_LiteralMatchSequence ==
    LastWasLiteral
        => /\ LiteralMatches(LastMatches, GivenBytes, LastFn.match.patt)
           /\ (LastFn.match.kind = "Lit" \/ Len(LastMatches) < LastFn.match.n)
                => NoneAfter(LastMatches, GivenBytes, LastFn.match.patt)
           /\ LastFn.match.kind = "LitN" => Len(LastMatches) <= LastFn.match.n

\* "aa" was searched in "aaa" and found once
C13_Witness ==
    /\ LastWasLiteral
    /\ LastFn.match.kind = "Lit"
    /\ LastFn.match.patt = <<"a", "a">>
    /\ GivenBytes = <<"a", "a", "a">>
    /\ LastMatches = <<<<0, 2>>>>

\* the bytes Do returns for buffer in when the Rewriter has just been built
FreshResult(in) ==
    BytesOf(Apply(EvalRewriter(cfg), [heap |-> InputHeap(in), allocs |-> 0, ok |-> TRUE],
                  NilSlice, InputSlice(in)))

\* C14: however two applications of one Rewriter value follow each other or
\* interleave, the value stays what the constructors built, count limits
\* included, and each buffer gets the result a fresh Rewriter gives it.
C14_Stateless ==
    /\ phase \in {"built", "running", "done", "panicked"} => rw = EvalRewriter(cfg)
    /\ phase = "done" => Result = FreshResult(input)
    /\ other.phase = "done" => Bytes(other.heap, other.dest) = FreshResult(other.input)

\* two interleaved applications of a pipeline that begins with
\* Delete(LitN("b", 1)), each on "bb": each has had its one "b" deleted
C14_Witness ==
    /\ again
    /\ phase = "running" /\ pc = 2
    /\ other.phase = "running" /\ other.pc = 2
    /\ LastCall.fn = "Delete" /\ LastCall.match.fn = "LitN"
    /\ input.bytes = <<"b", "b">> /\ other.input.bytes = <<"b", "b">>
    /\ Result = <<"b">>
    /\ Bytes(other.heap, other.dest) = <<"b">>

\* every match of ms has a positive length
AllPositive(ms) == \A k \in 1..Len(ms) : ms[k][1] < ms[k][2]

\* the matches of ms that begin at byte position p (1-based) of the buffer
StartingAt(ms, p) == {k \in 1..Len(ms) : ms[k][1] = p - 1}

\* b from position p on, with each match of ms (all of positive length)
\* replaced by one copy of subst and the other bytes kept
RECURSIVE SubstitutedFrom(_, _, _, _)
SubstitutedFrom(b, ms, subst, p) ==
    IF p > Len(b) THEN <<>>
    ELSE IF StartingAt(ms, p) # {}
    THEN subst \o SubstitutedFrom(b, ms, subst,
                                  ms[CHOOSE k \in StartingAt(ms, p) : TRUE][2] + 1)
    ELSE <<b[p]>> \o SubstitutedFrom(b, ms, subst, p + 1)

\* C15: when every match has a positive length, Replace returns the buffer
\* with each matched span replaced by one copy of the substitution and every
\* other byte kept in its order, in place and into a separate destination,
\* also when the substitution holds the matched text.
C15_ReplaceSubstitutes ==
    (LastWas({"Replace"}) /\ Len(LastMatches) > 0 /\ AllPositive(LastMatches))
        => Result = SubstitutedFrom(GivenBytes, LastMatches, LastFn.subst, 1)

\* every "b" of a buffer with two of them was replaced by "ab", into a
\* separate destination
C15_Witness ==
    /\ LastWas({"Replace"})
    /\ LastFn.match.kind = "Lit"
    /\ LastFn.match.patt = <<"b">>
    /\ LastFn.subst = <<"a", "b">>
    /\ Len(LastMatches) = 2
    /\ dest.arr # given.s.arr
    /\ Len(Result) = Len(GivenBytes) + 2

\* the bytes group g of match m spans in b; nothing for a group the pattern
\* does not have or that took no part in the match
GroupBytes(b, m, g) ==
    IF 2 * g + 2 <= Len(m) /\ m[2 * g + 1] >= 0
    THEN Sub(b, m[2 * g + 1], m[2 * g + 2])
    ELSE <<>>

GroupDigit(c) == IF c = "1" THEN 1 ELSE 0

\* template t, made of text and of references ${0}, ${1}, $0, $1, with
\* each reference replaced by the bytes of that group of match m in b
RECURSIVE Instantiated(_, _, _)
Instantiated(t, b, m) ==
    IF Len(t) = 0 THEN <<>>
    ELSE IF Len(t) >= 4 /\ t[1] = "$" /\ t[2] = "{" /\ t[3] \in {"0", "1"} /\ t[4] = "}"
    THEN GroupBytes(b, m, GroupDigit(t[3])) \o Instantiated(SubSeq(t, 5, Len(t)), b, m)
    ELSE IF Len(t) >= 2 /\ t[1] = "$" /\ t[2] \in {"0", "1"}
            /\ (Len(t) = 2 \/ t[3] \in {"$", "{", "}", "<", ">", "/"})
    THEN GroupBytes(b, m, GroupDigit(t[2])) \o Instantiated(SubSeq(t, 3, Len(t)), b, m)
    ELSE <<t[1]>> \o Instantiated(Tail(t), b, m)

\* b from offset i on, from the k-th match of ms on: the gap before each
\* match, the instantiated template in its place, the tail after the last
RECURSIVE ExpandedFrom(_, _, _, _, _)
ExpandedFrom(b, ms, t, k, i) ==
    IF k > Len(ms) THEN Sub(b, i, Len(b))
    ELSE Sub(b, i, ms[k][1]) \o Instantiated(t, b, ms[k])
         \o ExpandedFrom(b, ms, t, k + 1, ms[k][2])

\* the matches, with their groups, that the regexp of the last Expand finds
LastSubmatches == FindAllSubmatchIndex(LastFn.re, GivenBytes, LastFn.n)

\* C16: Expand with a non-empty template returns, match by match from the
\* left, the gap since the match before, then the template with each
\* reference replaced by the bytes of that group of the match in the source
\* (nothing for a group that took no part), then the tail.
C16_ExpandSubstitutes ==
    (LastWas({"Expand"}) /\ Len(LastSubmatches) > 0)
        => Result = ExpandedFrom(GivenBytes, LastSubmatches, LastFn.subst, 1, 0)

\* two adjacent matches of "b(a)?", the group taking part in one of them
\* only, expanded with "${1}$1"
C16_Witness ==
    /\ LastWas({"Expand"})
    /\ LastFn.subst = <<"$", "{", "1", "}", "$", "1">>
    /\ Len(LastSubmatches) = 2
    /\ Len(LastSubmatches[1]) = 4
    /\ LastSubmatches[1][3] = -1
    /\ LastSubmatches[2][3] >= 0
    /\ LastSubmatches[1][2] = LastSubmatches[2][1]
    /\ Result = <<"a", "a">>

\* the substitution is no longer than any match of ms
FitsEvery(ms, subst) == \A k \in 1..Len(ms) : Len(subst) <= ms[k][2] - ms[k][1]

\* C17: Replace with at least one non-empty match works in place exactly
\* when the substitution is no longer than any match: the result is then in
\* current's array and no longer than current, nothing is allocated and the
\* spare comes back as given. Otherwise the result is in another array and
\* current, its bytes as they were, comes back as the spare.
C17_InPlaceIffFits ==
    (LastWas({"Replace"}) /\ SumSpans(LastMatches) > 0)
        => IF FitsEvery(LastMatches, LastFn.subst)
           THEN /\ dest.arr = given.s.arr
                /\ dest.len <= given.s.len
                /\ Len(heap) = Len(given.heap)
                /\ src = given.d
           ELSE /\ dest.arr # given.s.arr
                /\ src = given.s
                /\ Bytes(heap, src) = GivenBytes

\* a Replace late in a pipeline shortened its buffer in place and passed
\* on a spare that has capacity
C17_Witness ==
    /\ LastWas({"Replace"})
    /\ SumSpans(LastMatches) > 0
    /\ FitsEvery(LastMatches, LastFn.subst)
    /\ dest.len < given.s.len
    /\ given.d.cap > 0
    /\ src = given.d

\* the machine state the last call started from
GivenMachine == [heap |-> given.heap, allocs |-> 0, ok |-> TRUE]

\* the in-place loop of the last call, the first k matches consumed
LastStateAfter(k) ==
    IF LastFn.kind = "Delete"
    THEN DeleteStateAfter(GivenMachine, given.s, LastMatches, k)
    ELSE ReplaceStateAfter(GivenMachine, given.s, LastMatches, LastFn.subst, k)

\* in loop state st the write index is not past the read index, which is
\* the end of match m, and every byte from the read index on is as given
NotOvertaken(st, m) ==
    /\ st.ok
    /\ 0 <= st.i
    /\ st.i <= st.j
    /\ st.j = m[2]
    /\ \A p \in (st.j + 1)..given.s.len : st.a[p] = given.heap[given.s.arr][p]

\* the last call compacted its buffer in place
LastInPlace ==
    \/ LastWas({"Delete"}) /\ Len(LastMatches) > 0
    \/ LastWas({"Replace"}) /\ SumSpans(LastMatches) > 0
            /\ FitsEvery(LastMatches, LastFn.subst)

\* C18: in the in-place loops of Delete and Replace, whenever a match has
\* been consumed the write index i is at most the read index j, the end of
\* that match, and no byte from j on has been overwritten; also between the
\* two copies of one iteration of Replace's loop i is at most the start of
\* the match.
C18_WriteNotPastRead ==
    LastInPlace
        => /\ \A k \in 1..Len(LastMatches) :
                    NotOvertaken(LastStateAfter(k), LastMatches[k])
           /\ \A k \in 2..Len(LastMatches) :
                    CopyStep(LastStateAfter(k - 1), given.s.len, given.s.cap,
                             LastMatches[k - 1][2], LastMatches[k][1]).i
                        <= LastMatches[k][1]

\* Replace in place with a substitution as long as each match, the matches
\* adjacent and reaching from the start of the buffer to its end: the write
\* index has caught up with the read index
C18_Witness ==
    /\ LastWas({"Replace"})
    /\ Len(LastMatches) >= 2
    /\ AllSpans(LastMatches, Len(LastFn.subst))
    /\ LastMatches[1][1] = 0
    /\ LastMatches[1][2] = LastMatches[2][1]
    /\ LastMatches[Len(LastMatches)][2] = Len(GivenBytes)
    /\ LastStateAfter(Len(LastMatches)).i = LastStateAfter(Len(LastMatches)).j

\* needed * 1.2 rounded up, and rounded down
RoundedUp(needed) == (6 * needed + 4) \div 5

RoundedDown(needed) == needed + (needed \div 5)

\* the capacity the destination of the last call has to have: the final
\* size for Replace, the length of current for Expand
LastNeeded ==
    IF LastFn.kind = "Replace"
    THEN given.s.len - SumSpans(LastMatches) + Len(LastMatches) * Len(LastFn.subst)
    ELSE given.s.len

\* the last call wrote into a destination
LastWroteToDest ==
    \/ LastWas({"Replace"}) /\ SumSpans(LastMatches) > 0
            /\ ~FitsEvery(LastMatches, LastFn.subst)
    \/ LastWas({"Expand"}) /\ Len(LastSubmatches) > 0

\* the first array the last call allocated
FirstAllocated == heap[Len(given.heap) + 1]

\* the last call kept the spare as its destination when the spare's
\* capacity was at least what was needed, and otherwise made a buffer whose
\* capacity is capacity
GrowthPolicy(capacity) ==
    IF LastNeeded <= given.d.cap
    THEN /\ LastFn.kind = "Replace" => dest.arr = given.d.arr
         /\ Len(heap) = Len(given.heap) => dest.arr = given.d.arr
         /\ Speculate(GivenMachine, given.d, given.s).s = given.d
    ELSE /\ Len(heap) > Len(given.heap)
         /\ Len(FirstAllocated) = capacity
         /\ LastFn.kind = "Replace" => dest.arr = Len(given.heap) + 1

\* C19 as stated: Replace and Expand reuse the spare when its capacity is at
\* least needed and otherwise allocate needed * 1.2, rounded up.
C19_GrowthRoundedUp ==
    LastWroteToDest => GrowthPolicy(RoundedUp(LastNeeded))

\* C19 amended: Replace and Expand reuse the spare when its capacity is at
\* least needed and otherwise allocate needed + needed / 5 in integer
\* arithmetic, which is needed * 1.2 rounded down.
C19_GrowthRoundedDown ==
    LastWroteToDest => GrowthPolicy(RoundedDown(LastNeeded))

\* a Replace had to make a destination for 4 bytes and made one of capacity
\* 4, where rounding up gives 5
C19_Witness ==
    /\ LastWroteToDest
    /\ LastFn.kind = "Replace"
    /\ LastNeeded = 4
    /\ LastNeeded > given.d.cap
    /\ Len(FirstAllocated) = 4
    /\ dest.cap = 4

\* Do enters the closure of Seq: current is the input, the spare is empty
EntersWithInput ==
    (phase = "built" /\ phase' = "running")
        => /\ dest' = InputSlice(input')
           /\ heap' = InputHeap(input')
           /\ src'.len = 0
           /\ src'.cap = 0

\* a stage is called: it is given the result of the stage before as current
\* and that stage's spare, its length zero and its capacity kept; a stage
\* that filled this spare returned the bytes it returns for a spare with no
\* capacity at all
HandsOver ==
    (phase = "running" /\ pc' = pc + 1)
        => /\ given'.s = dest
           /\ given'.heap = heap
           /\ given'.d = [src EXCEPT !.len = 0]
           /\ (phase' = "running" /\ dest'.arr = src.arr /\ src.arr # 0)
                => Bytes(heap', dest')
                    = BytesOf(Apply(rw.rewriters[pc], Machine, NilSlice, dest))

\* the closure returns: Do's result is the result of the last stage
ReturnsLast ==
    (phase = "running" /\ phase' = "done")
        => /\ pc > Len(rw.rewriters)
           /\ dest' = dest
           /\ heap' = heap

\* C20: in a pipeline the first stage is given the input and an empty spare,
\* every later stage the result of the stage before and that stage's spare
\* with length zero and the capacity kept, so that no output follows stale
\* bytes; the output of the pipeline is the result of the last stage.
C20_StageHandOver == [][EntersWithInput /\ HandsOver /\ ReturnsLast]_vars

\* the third stage of a pipeline was handed a spare with capacity, which an
\* earlier stage had left with a length, and wrote its result into it
C20_Witness ==
    /\ rw.kind = "Seq"
    /\ phase \in {"running", "done"}
    /\ pc >= 4
    /\ given.d.cap > 0
    /\ given.d.len = 0
    /\ dest.arr = given.d.arr
    /\ dest.len > 0

\* the backing arrays the slices d and s refer to
HeldBy(d, s) == {d.arr, s.arr} \ {0}

\* the backing arrays allocated between heap h and heap h2
AllocatedSince(h, h2) == (Len(h) + 1)..Len(h2)

\* a rewriter of the pipeline's range loop is called and returns or panics
StageStep == phase = "running" /\ pc' = pc + 1

\* after a stage the closure refers to at most two backing arrays, each one
\* it referred to before or one the stage allocated; arrays it had let go
\* are not written; a Delete, Replace or Expand stage that allocated returns
\* the newest array as current and the buffer it read as spare, so that the
\* spare it was handed and every array it outgrew are let go
HoldsTwo ==
    StageStep
        => /\ Cardinality(HeldBy(dest', src')) <= 2
           /\ HeldBy(dest', src') \subseteq
                    (HeldBy(dest, src) \cup AllocatedSince(heap, heap'))
           /\ \A a \in 1..Len(heap) :
                    a \notin HeldBy(dest, src) => heap'[a] = heap[a]
           /\ (phase' = "running" /\ Len(heap') > Len(heap)
                    /\ rw.rewriters[pc].kind # "Seq")
                => /\ dest'.arr = Len(heap')
                   /\ src' = dest

\* C21: across the stages of a pipeline the closure holds at most two
\* buffers, the current one and one spare, also after a stage that allocated
\* a destination because the spare it was handed was too small: that spare
\* is let go and the buffer the stage read becomes the spare.
C21_AtMostTwoLive == [][HoldsTwo]_vars

\* a stage was handed a spare with capacity, found it too small and
\* allocated; the pipeline has by now let go of two arrays
C21_Witness ==
    /\ rw.kind = "Seq"
    /\ phase \in {"running", "done"}
    /\ pc >= 3
    /\ given.d.cap > 0
    /\ Len(heap) > Len(given.heap)
    /\ dest.arr = Len(heap)
    /\ given.d.arr \notin HeldBy(dest, src)
    /\ Cardinality(HeldBy(dest, src)) = 2
    /\ Len(heap) >= 4

\* heap h2 holds the arrays of heap h, each with the contents it had, except
\* for the array of slice s
SameButFor(h, h2, s) ==
    /\ Len(h2) = Len(h)
    /\ \A a \in 1..Len(h) : a # s.arr => h2[a] = h[a]

\* C22: the closure of Delete allocates nothing and leaves the spare alone:
\* it returns the spare it was handed, with its length, capacity and
\* contents, and, when there are matches, as result a prefix of the current
\* buffer's own array: same array, no longer, the capacity kept.
C22_DeleteFrame ==
    LastWas({"Delete"})
        => /\ src = given.d
           /\ SameButFor(given.heap, heap, given.s)
           /\ dest.arr = given.s.arr
           /\ dest.len <= given.s.len
           /\ dest.cap = given.s.cap

\* a Delete late in a pipeline removed matches from a buffer while the spare
\* it was handed had capacity and held bytes of an earlier stage
C22_Witness ==
    /\ LastWas({"Delete"})
    /\ rw.kind = "Seq"
    /\ pc >= 3
    /\ Len(LastMatches) > 0
    /\ dest.len < given.s.len
    /\ dest.len > 0
    /\ given.d.cap > 0
    /\ given.d.arr # given.s.arr
    /\ \E p \in 1..given.d.cap : heap[given.d.arr][p] # ZeroByte

\* the Rewriter expression is a Replace or an Expand with an empty
\* substitution
EmptySubst(e) ==
    /\ e.fn \in {"Replace", "Expand", "ExpandN", "ExpandRe", "ExpandReN"}
    /\ Len(e.subst) = 0

\* the Delete over the same Matcher resp. over the same regular expression
\* with the same match limit
DeleteCounterpart(e) ==
    CASE e.fn = "Replace" -> CallDelete(e.match)
      [] e.fn = "Expand" -> CallDelete(CallPatt(e.expr))
      [] e.fn = "ExpandN" -> CallDelete(CallPattN(e.expr, e.n))
      [] e.fn = "ExpandRe" -> CallDelete(CallRe(e.re))
      [] e.fn = "ExpandReN" -> CallDelete(CallReN(e.re, e.n))

\* a Rewriter closure other than Seq's has been called
LastRan == Called \/ (phase = "panicked" /\ rw.kind # "unbuilt")

\* the last call ended as r: the same panic or the same pair of slices, and
\* the same heap
SameOutcome(r) ==
    /\ r.ok = (phase # "panicked")
    /\ r.res = dest
    /\ r.spare = src
    /\ r.heap = heap

\* C23: Replace with an empty substitution and Expand, ExpandN, ExpandRe,
\* ExpandReN with an empty template are built exactly when the Delete over
\* the same Matcher, resp. the same regular expression and match limit, is
\* built, and their closure returns for the pair of buffers it is given what
\* that Delete returns: the same slices, the same heap, nothing allocated.
C23_EmptyIsDelete ==
    /\ (phase # "config" /\ EmptySubst(cfg))
            => (IsPanic(rw) <=> IsPanic(EvalRewriter(DeleteCounterpart(cfg))))
    /\ (LastRan /\ EmptySubst(LastCall))
            => /\ SameOutcome(Apply(EvalRewriter(DeleteCounterpart(LastCall)),
                                   GivenMachine, given.d, given.s))
               /\ Len(heap) = Len(given.heap)

\* an Expand with an empty template and a match limit of one, late in a
\* pipeline, was handed a spare with capacity and removed the first of
\* several matches in place
C23_Witness ==
    /\ Called
    /\ rw.kind = "Seq"
    /\ LastCall.fn = "ExpandN"
    /\ EmptySubst(LastCall)
    /\ LastCall.n = 1
    /\ Len(FindAllIndex(MustCompile(LastCall.expr), GivenBytes, -1)) >= 2
    /\ given.d.cap > 0
    /\ dest.arr = given.s.arr
    /\ 0 < dest.len
    /\ dest.len < given.s.len

\* the slices cur and spare share no storage: the spare is nil or lies in
\* another backing array
Apart(cur, spare) == spare.arr = 0 \/ spare.arr # cur.arr

\* the machine state a closure call left
MachineOf(r) == [heap |-> r.heap, allocs |-> r.allocs, ok |-> r.ok]

\* the range loop of a Seq closure from its k-th rewriter on, r holding dest
\* and src: at this and every later boundary, those of nested closures
\* included, dest and src are apart
RECURSIVE ApartThrough(_, _, _)
ApartThrough(rewriters, k, r) ==
    /\ Apart(r.res, r.spare)
    /\ (k <= Len(rewriters) /\ r.ok)
        => /\ rewriters[k].kind = "Seq"
                => ApartThrough(rewriters[k].rewriters, 1,
                                Ret(MachineOf(r), r.res, SpareArg(r.spare)))
           /\ ApartThrough(rewriters, k + 1,
                           Apply(rewriters[k], MachineOf(r), SpareArg(r.spare), r.res))

\* C24: at every boundary between the stages of a pipeline that Do started,
\* nested pipelines and single rewriters included, the current buffer and
\* the spare share no storage: the spare is nil or another backing array.
C24_CurrentAndSpareApart ==
    (phase \in {"running", "done"} /\ rw.kind # "unbuilt")
        => /\ Apart(dest, src)
           /\ (rw.kind = "Seq" /\ pc >= 2 /\ LastFn.kind = "Seq")
                => ApartThrough(LastFn.rewriters, 1,
                                Ret(GivenMachine, given.s, given.d))

\* a nested pipeline ran as a stage, was handed a spare with capacity and
\* left its result in that spare; the buffer it read is the new spare
C24_Witness ==
    /\ rw.kind = "Seq"
    /\ phase \in {"running", "done"}
    /\ pc >= 3
    /\ LastFn.kind = "Seq"
    /\ given.d.cap > 0
    /\ dest.arr = given.d.arr
    /\ src.arr = given.s.arr
    /\ src.arr # 0
    /\ dest.len > 0
    /\ Bytes(heap, dest) # GivenBytes

\* the closure of a literal Matcher has been called on input
Scanning == scan.at # "none"

\* the scan cursor b stays inside the buffer, every match recorded so far
\* lies before it, and a count limit n >= 0 is not exceeded
ScanInRange ==
    Scanning
        => /\ scan.at # "panicked"
           /\ scan.b <= Len(input.bytes)
           /\ Len(scan.ms) * Len(rw.match.patt) <= scan.b
           /\ Len(scan.ms) <= Len(input.bytes) \div Len(rw.match.patt)
           /\ rw.match.kind = "LitN" => Len(scan.ms) <= rw.match.n
           /\ scan.at = "returned" => scan.ms = Match(rw.match, input.bytes).ms

\* an iteration that records a match moves the cursor on by at least the
\* length of the literal, which is at least one
ScanAdvances ==
    (Scanning /\ Len(scan'.ms) > Len(scan.ms))
        => /\ Len(rw.match.patt) >= 1
           /\ scan'.b >= scan.b + Len(rw.match.patt)
           /\ Len(scan'.ms) = Len(scan.ms) + 1

\* C25: for a non-empty literal and any buffer the loops of the closures of
\* Lit and LitN end: the cursor b grows by at least len(patt) >= 1 with every
\* match and never passes len(s), so that the closure returns, with at most
\* len(s) / len(patt) matches and at most n for LitN with n >= 0.
C25_ScanTerminates ==
    /\ []ScanInRange
    /\ [][ScanAdvances]_vars
    /\ (scan.at = "loop") ~> (scan.at = "returned")

\* the closure of LitN returned because its count of two was used up while
\* the buffer holds the literal once more after the cursor
C25_Witness ==
    /\ scan.at = "returned"
    /\ rw.match.kind = "LitN"
    /\ rw.match.n = 2
    /\ Len(scan.ms) = 2
    /\ scan.n = 0
    /\ scan.b < Len(input.bytes)
    /\ Index(Sub(input.bytes, scan.b, Len(input.bytes)), rw.match.patt) >= 0

====
